---- MODULE Spec2Model ----
(***************************************************************************)
(* Model of package rest of dungnh3/trustwallet-assignment: the retrying    *)
(* executor (RetryDoer, its retry policies and backoff functions, the      *)
(* request body it replays) and the Rest builder (its setters, Request,    *)
(* Receive, Do and the decoding of responses).                             *)
(*                                                                         *)
(* time.Duration and int64 are modelled as two's complement integers of    *)
(* DurBits bits, float64 as a binary float with MantBits bits of mantissa  *)
(* and a largest finite exponent of ExpMax, so that overflow, rounding and *)
(* infinities can be enumerated.  Second is the number of duration units   *)
(* in time.Second.                                                         *)
(***************************************************************************)
EXTENDS Integers, Sequences, FiniteSets, TLC

\* ------------------------------------------------------------------ bounds
DurBits == 6
MantBits == 4
ExpMax == 10
Second == 4
MaxRetryMax == 2
MaxAttemptNum == 11

RECURSIVE Pow2(_)
Pow2(n) == IF n <= 0 THEN 1 ELSE 2 * Pow2(n - 1)

MaxDur == Pow2(DurBits - 1) - 1
MinDur == -Pow2(DurBits - 1)
Durations == MinDur..MaxDur

\* int64 arithmetic wraps around
Wrap(x) == ((x - MinDur) % Pow2(DurBits)) + MinDur

\* ------------------------------------------------------------------ values
\* error values; Nil is the nil error
Nil == [kind |-> "nil"]
\* ctx.Err() of a context in state c
CtxErr(c) == IF c = "live" THEN Nil ELSE [kind |-> "context", which |-> c]
CtxStates == {"live", "Canceled", "DeadlineExceeded"}

\* A transport error: whether it is a *url.Error, and what it wraps:
\*   redirects        errors.New("stopped after 10 redirects")
\*   scheme           errors.New("unsupported protocol scheme ...")
\*   unknownAuthority x509.UnknownAuthorityError
\*   other            anything else (connection refused, reset, EOF, ...)
Causes == {"redirects", "scheme", "unknownAuthority", "other"}
TransportErr(isURL, cause) == [kind |-> "transport", url |-> isURL, cause |-> cause]
TransportErrs == {TransportErr(u, c) : u \in BOOLEAN, c \in Causes}

\* fmt.Errorf("unexpected HTTP status %s", resp.Status)
UnexpectedStatus(status) == [kind |-> "unexpectedStatus", status |-> status]
\* fmt.Errorf("%s %s giving up after %d attempt(s)[: %w]", ..., attempt, err)
GivingUp(n, cause) == [kind |-> "givingUp", attempts |-> n, cause |-> cause]

\* redirectsErrorRe / schemeErrorRe applied to v.Error() of a *url.Error,
\* whose text ends with the text of the wrapped error
redirectsErrorRe(e) == e.cause = "redirects"
schemeErrorRe(e) == e.cause = "scheme"

\* Header values are strings, modelled as sequences of one-character strings.
DigitChars == {"0", "1", "2", "3", "4", "5", "6", "7", "8", "9"}
DigitVal(c) ==
  CASE c = "0" -> 0 [] c = "1" -> 1 [] c = "2" -> 2 [] c = "3" -> 3
    [] c = "4" -> 4 [] c = "5" -> 5 [] c = "6" -> 6 [] c = "7" -> 7
    [] c = "8" -> 8 [] c = "9" -> 9

RECURSIVE DigitsValue(_)
DigitsValue(s) ==
  IF s = <<>> THEN 0
  ELSE DigitsValue(SubSeq(s, 1, Len(s) - 1)) * 10 + DigitVal(s[Len(s)])

\* strconv.ParseInt(s, 10, 64): optional sign, at least one digit, only
\* digits, value within the integer range; otherwise an error.
ParseInt(s) ==
  LET signed == Len(s) > 0 /\ s[1] \in {"+", "-"}
      digits == IF signed THEN Tail(s) ELSE s
      v == IF Len(s) > 0 /\ s[1] = "-" THEN -DigitsValue(digits) ELSE DigitsValue(digits)
  IN IF digits = <<>> \/ \E k \in 1..Len(digits) : digits[k] \notin DigitChars
       THEN [ok |-> FALSE, n |-> 0]
     ELSE IF v < MinDur \/ v > MaxDur
       THEN [ok |-> FALSE, n |-> IF v < 0 THEN MinDur ELSE MaxDur]
     ELSE [ok |-> TRUE, n |-> v]

\* A response: the attempt that produced it (id), its status code and its
\* Retry-After header ("Retry-After" present or not, and its first value).
NilResp == [nil |-> TRUE, id |-> 0, status |-> 0, hasRetryAfter |-> FALSE, retryAfter |-> <<>>]
Response(id, status, has, ra) ==
  [nil |-> FALSE, id |-> id, status |-> status, hasRetryAfter |-> has, retryAfter |-> ra]

\* ------------------------------------------------------------------ policies
\* The result of a CheckRetry policy
Verdict(retry, err) == [retry |-> retry, err |-> err]

DefaultRetryPolicyNoContextCheck(ctx, resp, err) ==
  IF err # Nil THEN
    IF err.url /\ (redirectsErrorRe(err) \/ schemeErrorRe(err) \/ err.cause = "unknownAuthority")
      THEN Verdict(FALSE, Nil)
      ELSE Verdict(TRUE, Nil)
  ELSE IF resp.status = 429 THEN Verdict(TRUE, Nil)
  ELSE IF resp.status = 0 \/ (resp.status >= 500 /\ resp.status # 501) THEN Verdict(TRUE, Nil)
  ELSE Verdict(FALSE, Nil)

DefaultRetryPolicyRetries501(ctx, resp, err) ==
  IF CtxErr(ctx) # Nil THEN Verdict(FALSE, CtxErr(ctx))
  ELSE IF err # Nil THEN
    IF err.url /\ (redirectsErrorRe(err) \/ schemeErrorRe(err) \/ err.cause = "unknownAuthority")
      THEN Verdict(FALSE, Nil)
      ELSE Verdict(TRUE, Nil)
  ELSE IF resp.status = 429 THEN Verdict(TRUE, Nil)
  ELSE IF resp.status = 0 \/ resp.status >= 500 THEN Verdict(TRUE, Nil)
  ELSE Verdict(FALSE, Nil)

DefaultRetryPolicy(ctx, resp, err) ==
  IF CtxErr(ctx) # Nil THEN Verdict(FALSE, CtxErr(ctx))
  ELSE IF err # Nil THEN
    IF err.url /\ (redirectsErrorRe(err) \/ schemeErrorRe(err) \/ err.cause = "unknownAuthority")
      THEN Verdict(FALSE, Nil)
      ELSE Verdict(TRUE, Nil)
  ELSE IF resp.status = 429 THEN Verdict(TRUE, Nil)
  ELSE IF resp.status = 0 \/ (resp.status >= 500 /\ resp.status # 501) THEN Verdict(TRUE, Nil)
  ELSE Verdict(FALSE, Nil)

ErrorPropagatedRetryPolicy(ctx, resp, err) ==
  IF CtxErr(ctx) # Nil THEN Verdict(FALSE, CtxErr(ctx))
  ELSE IF err # Nil THEN
    IF err.url /\ (redirectsErrorRe(err) \/ schemeErrorRe(err) \/ err.cause = "unknownAuthority")
      THEN Verdict(FALSE, err)
      ELSE Verdict(TRUE, Nil)
  ELSE IF resp.status = 0 \/ (resp.status >= 500 /\ resp.status # 501)
    THEN Verdict(TRUE, UnexpectedStatus(resp.status))
  ELSE Verdict(FALSE, Nil)

Policies == {"DefaultRetryPolicy", "ErrorPropagatedRetryPolicy"}
\* c.CheckRetry(ctx, resp, err) for the configured policy
CheckRetry(policy, ctx, resp, err) ==
  IF policy = "DefaultRetryPolicy" THEN DefaultRetryPolicy(ctx, resp, err)
  ELSE ErrorPropagatedRetryPolicy(ctx, resp, err)

\* ------------------------------------------------------------------ float64
\* A float64 value: finite (an integer v here; every value the backoff
\* computes is integral), an infinity (v is its sign) or NaN.
Fin(v) == [kind |-> "fin", v |-> v]
Inf(sign) == [kind |-> "inf", v |-> sign]
NaN == [kind |-> "nan", v |-> 0]

Abs(x) == IF x < 0 THEN -x ELSE x
Sign(x) == IF x < 0 THEN -1 ELSE IF x > 0 THEN 1 ELSE 0

RECURSIVE BitLen(_)
BitLen(x) == IF x <= 0 THEN 0 ELSE 1 + BitLen(x \div 2)

\* float64(x) of an integer x: round to nearest, ties to even, on MantBits
\* bits of mantissa
RoundToFloat(x) ==
  LET a == Abs(x)
      e == BitLen(a) - MantBits
      ulp == Pow2(e)
      q == a \div ulp
      r == a % ulp
      up == (2 * r > ulp) \/ (2 * r = ulp /\ q % 2 = 1)
  IN IF e <= 0 THEN x ELSE Sign(x) * (IF up THEN q + 1 ELSE q) * ulp

\* math.Pow(2, float64(attemptNum)) for attemptNum >= 0
MathPow2(n) == IF n >= ExpMax THEN Inf(1) ELSE Fin(Pow2(n))

\* the float64 product pow * f of a power of two and a finite float
FloatMul(pow, f) ==
  IF pow.kind = "inf" THEN (IF f = 0 THEN NaN ELSE Inf(Sign(f)))
  ELSE IF Abs(pow.v * f) >= Pow2(ExpMax) THEN Inf(Sign(f))
  ELSE Fin(pow.v * f)

\* time.Duration(mult): exact when mult is in range.  The conversion of an
\* out-of-range float to an integer is implementation-dependent in Go:
\*   "indefinite" the integer indefinite value (amd64)
\*   "saturate"   the nearest representable value, 0 for NaN (arm64)
ConvModes == {"indefinite", "saturate"}
FloatToDuration(mult, conv) ==
  IF mult.kind = "fin" /\ mult.v >= MinDur /\ mult.v <= MaxDur THEN mult.v
  ELSE IF conv = "indefinite" THEN MinDur
  ELSE IF mult.kind = "nan" THEN 0
  ELSE IF mult.v > 0 THEN MaxDur ELSE MinDur

\* float64(sleep) != mult
FloatNE(sleep, mult) == mult.kind # "fin" \/ RoundToFloat(sleep) # mult.v

\* ------------------------------------------------------------------ backoff
\* the outcome of a Backoff call: a duration, or a panic
Waits(d) == [panic |-> FALSE, d |-> d]
Panics == [panic |-> TRUE, d |-> 0]

\* resp carries a Retry-After that DefaultBackoff honours
RetryAfterApplies(resp) ==
  /\ ~resp.nil
  /\ resp.status = 429
  /\ resp.hasRetryAfter
  /\ ParseInt(resp.retryAfter).ok

DefaultBackoffIgnoresRetryAfter(min, max, attemptNum, resp, conv) ==
  LET mult == FloatMul(MathPow2(attemptNum), RoundToFloat(min))
      sleep == FloatToDuration(mult, conv)
  IN IF FloatNE(sleep, mult) \/ sleep > max THEN max ELSE sleep

DefaultBackoffNoOverflowCheck(min, max, attemptNum, resp, conv) ==
  IF RetryAfterApplies(resp) THEN Wrap(Second * ParseInt(resp.retryAfter).n)
  ELSE LET mult == FloatMul(MathPow2(attemptNum), RoundToFloat(min))
           sleep == FloatToDuration(mult, conv)
       IN IF sleep > max THEN max ELSE sleep

DefaultBackoff(min, max, attemptNum, resp, conv) ==
  IF RetryAfterApplies(resp) THEN Wrap(Second * ParseInt(resp.retryAfter).n)
  ELSE LET mult == FloatMul(MathPow2(attemptNum), RoundToFloat(min))
           sleep == FloatToDuration(mult, conv)
       IN IF FloatNE(sleep, mult) \/ sleep > max THEN max ELSE sleep

\* maxInt := ^int64(0), the bitwise complement of 0
maxInt == -0 - 1

\* randomFloat: crand.Int(crand.Reader, big.NewInt(maxInt)) panics when its
\* bound is <= 0; otherwise it draws from [0, maxInt) or fails with an error.
\* draw is the entropy read: "err" or a numerator num of the fraction num/RandDen.
RandDen == 4
RandDraws == {[err |-> TRUE, num |-> 0]} \cup {[err |-> FALSE, num |-> k] : k \in 0..RandDen}
randomFloat(draw) ==
  IF maxInt <= 0 THEN [panic |-> TRUE, err |-> FALSE, num |-> 0]
  ELSE [panic |-> FALSE, err |-> draw.err, num |-> draw.num]

LinearJitterBackoff(min, max, attemptNum, resp, draw) ==
  LET n == attemptNum + 1
      randedF == randomFloat(draw)
      jitter == (randedF.num * RoundToFloat(Wrap(max - min))) \div RandDen
      jitterMin == Wrap(jitter + min)
  IN IF max <= min THEN Waits(Wrap(min * n))
     ELSE IF randedF.panic THEN Panics
     ELSE IF randedF.err THEN Waits(Wrap(min * n))
     ELSE Waits(Wrap(jitterMin * n))

\* A caller-supplied Backoff (WithRetryBackoff): here one that always waits min
CustomBackoff(min, max, attemptNum, resp) == Waits(min)

Backoffs == {"DefaultBackoff", "LinearJitterBackoff", "CustomBackoff"}
\* c.Backoff(min, max, attemptNum, resp) for the configured backoff
Backoff(backoff, min, max, attemptNum, resp, conv, draw) ==
  IF backoff = "DefaultBackoff" THEN Waits(DefaultBackoff(min, max, attemptNum, resp, conv))
  ELSE IF backoff = "LinearJitterBackoff" THEN LinearJitterBackoff(min, max, attemptNum, resp, draw)
  ELSE CustomBackoff(min, max, attemptNum, resp)

\* ------------------------------------------------------------------ state
VARIABLES
  doer,            \* the RetryDoer: RetryMax, RetryWaitMin, RetryWaitMax, CheckRetry, Backoff, ErrorHandler
  ctx,             \* state of req.Context()
  pc,              \* where the DoCustom call is
  i,               \* loop index of DoCustom
  attempt,         \* attempt counter of DoCustom
  resp,            \* resp of DoCustom: the last response
  doErr,           \* doErr of DoCustom: the last transport error
  shouldRetry,     \* shouldRetry of DoCustom
  checkErr,        \* checkErr of DoCustom: the last error of the policy
  wait,            \* the duration the call waits before the next attempt
  bodies,          \* per invocation of the inner executor, the state of the response body it returned
  invocations,     \* number of calls of c.HTTPClient.Do made by this call
  result,          \* what DoCustom returned
  handlerCall,     \* the arguments c.ErrorHandler was called with
  ctxAtCheck,      \* state of the context at the last CheckRetry call
  cancelledInWait, \* the context was cancelled while the call was suspended in the select
  exit,            \* how the call returned: from FromRequest, after the loop ("loop") or from the select
  errs,            \* per invocation of the inner executor, the transport error it returned
  rawBody,         \* r.Body of the http.Request given to RetryDoer.Do
  body,            \* req.body: the ReaderFunc FromRequest stored
  Body,            \* req.Body: the reader the next attempt sends
  seen,            \* per invocation, the bytes req.Body held for the inner executor
  verdicts,        \* per invocation, whether CheckRetry said to retry after it
  backoffCalls,    \* the attempt numbers c.Backoff was called with, in call order
  waited,          \* number of waits that ended with the timer
  calls,           \* per concurrent DoCustom call on the one RetryDoer, its local variables
  rest,            \* the Rest builder: its fields
  restPc,          \* where the builder is: being set up ("build") or Receive has returned
  ops,             \* number of setter calls made on the builder
  pathErr,         \* the last setter call was given a path that url.Parse rejects; rawURL before it
  successV,        \* the value successV points to, given to Receive
  failureV,        \* the value failureV points to, given to Receive
  doerCalls,       \* number of calls of s.httpClient.Do made by Receive
  restReq,         \* what Request() returned to Receive
  restResp,        \* the response s.httpClient.Do returned to Rest.Do
  restResult,      \* what Receive returned
  clone,           \* the builder s.Clone() returned, once it was called
  cloneOps,        \* number of setter calls made on the clone
  aliased,         \* the header keys whose slices in the builder and in the clone share an array
  atClone,         \* the builder as it was when Clone was called
  want,            \* per canonical key, the value of the last SetHeader and of the AddHeaders since
  lastBody,        \* the slot and provider of the last body setter call with a non-nil argument,
                   \* and whether the last body setter call had a nil argument
  heap,            \* the io.Readers the caller gave to the body setters: data, position, closed
  built,           \* the Request() calls made, in order: the builder, the error, the body
                   \* of the request and, once it was sent, the bytes read from it
  invoker,         \* the parser's Invoker: its context and the body provider of its one Rest builder
  repo,            \* the InMemory repository: mapBlockInfo (for the one address) and blockTransactions
  gor,             \* the goroutine started by Subscribe: where it is, its ticker, the locals of its poll
  rpcs,            \* the JSON-RPC calls that goroutines make through the Invoker at the same time
  probe            \* inputs and result of a policy or backoff function applied on its own

\* the request body of the call
reqVars == <<rawBody, body, Body, seen>>

vars == <<doer, ctx, pc, i, attempt, resp, doErr, shouldRetry, checkErr, wait, bodies,
          invocations, result, handlerCall, ctxAtCheck, cancelledInWait, exit, errs,
          rawBody, body, Body, seen, verdicts, backoffCalls, waited, calls, rest, restPc, ops, pathErr, successV, failureV,
          doerCalls, restReq, restResp, restResult, clone, cloneOps, aliased, atClone, want,
          lastBody, heap, built, invoker, repo, gor, rpcs, probe>>

\* the state of a Rest builder and of its Receive call
restVars == <<rest, restPc, ops, pathErr, successV, failureV, doerCalls, restReq, restResp,
              restResult, clone, cloneOps, aliased, atClone, want, lastBody, heap, built,
              invoker, repo, gor, rpcs>>

\* the clone of the builder, and the record of the header and body calls
builderVars == <<clone, cloneOps, aliased, atClone, want, lastBody, heap, built,
                 invoker, repo, gor, rpcs>>

\* the Invoker of the parser, its repository and its goroutines
parserVars == <<invoker, repo, gor, rpcs>>

\* the readers of the caller and the requests built
buildVars == <<heap, built>>

callVars == <<doer, ctx, pc, i, attempt, resp, doErr, shouldRetry, checkErr, wait, bodies,
              invocations, result, handlerCall, ctxAtCheck, cancelledInWait, exit, errs,
              rawBody, body, Body, seen, verdicts, backoffCalls, waited, calls>>

\* the record of the steps of the call
histVars == <<verdicts, backoffCalls, waited>>

NoResult == [set |-> FALSE, resp |-> NilResp, err |-> Nil]
Returned(r, e) == [set |-> TRUE, resp |-> r, err |-> e]
NoCall == [called |-> FALSE, resp |-> NilResp, err |-> Nil, numTries |-> 0]
Called(r, e, n) == [called |-> TRUE, resp |-> r, err |-> e, numTries |-> n]
NoProbe == [fn |-> "none"]

\* the concurrent callers of one RetryDoer, and the local variables of a
\* DoCustom call that has not run yet (outs: what c.HTTPClient.Do returned to
\* this call so far; pending: a call of c.HTTPClient.Do has not returned yet)
Callers == {1, 2}
NewCall ==
  [pc |-> "start", ctx |-> "live", i |-> 0, attempt |-> 0, resp |-> NilResp, doErr |-> Nil,
   shouldRetry |-> FALSE, checkErr |-> Nil, ctxAtCheck |-> "live", wait |-> 0, outs |-> <<>>,
   pending |-> FALSE, bodies |-> <<>>, result |-> NoResult, handlerCall |-> NoCall, exit |-> "none"]
NoCalls == [p \in Callers |-> [NewCall EXCEPT !.pc = "idle"]]

\* ------------------------------------------------------------------ inputs
\* c.ErrorHandler: nil, or a caller-supplied handler: one that hands back
\* what it got, and one that suppresses the error
ErrorHandlers == {"nil", "passthrough", "suppress"}
ErrorHandler(h, r, e, numTries) ==
  IF h = "passthrough" THEN Returned(r, e) ELSE Returned(r, Nil)

WaitConfigs == {<<0, Second>>, <<1, Second>>, <<Second, 1>>}

RetryDoers ==
  {[RetryMax |-> m, RetryWaitMin |-> w[1], RetryWaitMax |-> w[2],
    CheckRetry |-> p, Backoff |-> b, ErrorHandler |-> h] :
     m \in -1..MaxRetryMax, w \in WaitConfigs, p \in Policies, b \in Backoffs,
     h \in ErrorHandlers}

\* What the inner executor may return for one call: a response (status,
\* Retry-After header), a transport error, or both (http.Client returns the
\* response, its body closed, with the error of a failed CheckRedirect).
RetryAfterValues == {<<"2">>, <<"-", "1">>, <<"9">>, <<"a">>}
Outcome(hasResp, status, has, ra, err) ==
  [hasResp |-> hasResp, status |-> status, has |-> has, ra |-> ra, err |-> err]
ExecOutcomes ==
  {Outcome(TRUE, s, FALSE, <<>>, Nil) : s \in {200, 429, 501, 503}}
  \cup {Outcome(TRUE, 429, TRUE, ra, Nil) : ra \in RetryAfterValues}
  \cup {Outcome(TRUE, 503, TRUE, <<"2">>, Nil)}
  \cup {Outcome(FALSE, 0, FALSE, <<>>, e) :
          e \in {TransportErr(TRUE, "other"), TransportErr(TRUE, "redirects"),
                 TransportErr(FALSE, "redirects")}}
  \cup {Outcome(TRUE, 302, FALSE, <<>>, TransportErr(TRUE, "redirects"))}

\* ------------------------------------------------------------------ request body
\* An io.Reader: the content it yields from its start, how much of it has
\* been read, and whether reading it fails before its end.  A one-shot
\* stream cannot go back: its position only grows.
NoBody == [nil |-> TRUE, data |-> <<>>, pos |-> 0, fails |-> FALSE]
Reader(data, pos, fails) == [nil |-> FALSE, data |-> data, pos |-> pos, fails |-> fails]
\* what reading rd to its end yields
Remaining(rd) == SubSeq(rd.data, rd.pos + 1, Len(rd.data))

\* the bodies a caller hands to RetryDoer.Do
RawBodies ==
  {NoBody, Reader(<<>>, 0, FALSE), Reader(<<"a", "b">>, 0, FALSE), Reader(<<"a", "b">>, 0, TRUE)}

\* the error of a failed Read
ReadErr == [kind |-> "read"]

\* A ReaderFunc: nil, or a closure over buf that returns bytes.NewReader(buf)
NoReaderFunc == [nil |-> TRUE, buf |-> <<>>]
ReaderFunc(buf) == [nil |-> FALSE, buf |-> buf]

\* getBodyReaderAndContentLength(rawBody): ioutil.ReadAll of an io.Reader,
\* then a ReaderFunc over the bytes read; nothing for a nil body
getBodyReaderAndContentLength(raw) ==
  IF raw.nil THEN [bodyReader |-> NoReaderFunc, err |-> Nil]
  ELSE IF raw.fails THEN [bodyReader |-> NoReaderFunc, err |-> ReadErr]
  ELSE [bodyReader |-> ReaderFunc(Remaining(raw)), err |-> Nil]

\* FromRequest(r): the ReaderFunc for r.Body, or the error of reading it
FromRequest(raw) == getBodyReaderAndContentLength(raw)

\* req.rewind(): req.Body becomes what req.body() returns, a new reader over
\* the buffered bytes; req.Body (cur) is left alone when req.body is nil
rewindKeepsReader(fn, cur) == cur
rewind(fn, cur) == IF fn.nil THEN cur ELSE Reader(fn.buf, 0, FALSE)

\* ------------------------------------------------------------------ Rest: URLs
\* URL strings are sequences of tokens: a scheme with an authority
\* ("https://a.io"), "/", a path segment ("foo"), or "%zz", an invalid
\* percent-escape.  The strings enumerated hold no dot segments, no query
\* and no fragment.
Hosts == {"https://a.io", "https://b.io"}
NilURL == [nil |-> TRUE, host |-> "", path |-> <<>>]
URL(host, path) == [nil |-> FALSE, host |-> host, path |-> path]

\* url.Parse(str): the URL, or an error (and a nil URL) for an invalid escape
Parse(str) ==
  IF \E k \in 1..Len(str) : str[k] = "%zz" THEN [ok |-> FALSE, url |-> NilURL]
  ELSE IF str # <<>> /\ str[1] \in Hosts THEN [ok |-> TRUE, url |-> URL(str[1], Tail(str))]
  ELSE [ok |-> TRUE, url |-> URL("", str)]

\* u.String(): a "/" is put between an authority and a path without one
String(u) ==
  IF u.host = "" THEN u.path
  ELSE IF u.path # <<>> /\ u.path[1] # "/" THEN <<u.host, "/">> \o u.path
  ELSE <<u.host>> \o u.path

HasSuffixSlash(str) == str # <<>> /\ str[Len(str)] = "/"

\* strings.LastIndex(base, "/") + 1: the length of base up to its last "/"
RECURSIVE UpToLastSlash(_)
UpToLastSlash(base) ==
  IF base = <<>> THEN 0
  ELSE IF base[Len(base)] = "/" THEN Len(base)
  ELSE UpToLastSlash(SubSeq(base, 1, Len(base) - 1))

\* resolvePath(base, ref) of net/url: ref replaces what follows the last "/"
\* of base, or all of base when ref starts with "/"; the result starts with "/"
resolvePathAppends(base, ref) ==
  LET full == IF ref = <<>> THEN base
              ELSE IF ref[1] # "/" THEN
                (IF HasSuffixSlash(base) THEN base ELSE Append(base, "/")) \o ref
              ELSE ref
  IN IF full = <<>> THEN <<>>
     ELSE IF full[1] = "/" THEN full
     ELSE <<"/">> \o full

resolvePath(base, ref) ==
  LET full == IF ref = <<>> THEN base
              ELSE IF ref[1] # "/" THEN SubSeq(base, 1, UpToLastSlash(base)) \o ref
              ELSE ref
  IN IF full = <<>> THEN <<>>
     ELSE IF full[1] = "/" THEN full
     ELSE <<"/">> \o full

\* u.ResolveReference(ref)
ResolveReference(u, ref) ==
  IF ref.host # "" THEN URL(ref.host, resolvePath(ref.path, <<>>))
  ELSE URL(u.host, resolvePath(u.path, ref.path))

\* ------------------------------------------------------------------ Rest: the builder
\* http.Header: a function from the keys present to a []string each: the
\* values the slice shows (its length is their number) and the capacity of
\* its backing array
NoHeader == <<>>
Slice(vals, cap) == [vals |-> vals, cap |-> cap]
\* the values a header holds under each of its keys
Values(h) == [k \in DOMAIN h |-> h[k].vals]

\* textproto.CanonicalMIMEHeaderKey(key), on the keys given to the builder:
\* the first letter and every letter after a hyphen in upper case, the
\* others in lower case
HeaderKeys == {"A", "a", "content-TYPE"}
CanonicalMIMEHeaderKey(key) ==
  CASE key = "a" -> "A"
    [] key = "content-TYPE" -> "Content-Type"
    [] OTHER -> key

\* header.Set(key, value): h[CanonicalMIMEHeaderKey(key)] = []string{value},
\* a slice over a new array
HeaderSetKeepsValues(h, key, value) ==
  LET k == CanonicalMIMEHeaderKey(key)
      old == IF k \in DOMAIN h THEN h[k].vals ELSE <<>>
  IN [j \in DOMAIN h \cup {k} |->
        IF j = k THEN Slice(Append(old, value), Len(old) + 1) ELSE h[j]]

HeaderSet(h, key, value) ==
  LET k == CanonicalMIMEHeaderKey(key)
  IN [j \in DOMAIN h \cup {k} |-> IF j = k THEN Slice(<<value>>, 1) ELSE h[j]]

\* append(s, value) stores into the backing array of s when its capacity
\* allows; otherwise it allocates an array, of twice the capacity for a small
\* slice (growslice of the gc runtime), and copies
GrowCap(cap) == IF cap = 0 THEN 1 ELSE 2 * cap
AppendsInPlace(h, key) ==
  LET k == CanonicalMIMEHeaderKey(key)
  IN k \in DOMAIN h /\ Len(h[k].vals) < h[k].cap

\* header.Add(key, value): h[k] = append(h[k], value) for the canonical key k
HeaderAdd(h, key, value) ==
  LET k == CanonicalMIMEHeaderKey(key)
      old == IF k \in DOMAIN h THEN h[k] ELSE Slice(<<>>, 0)
      new == Slice(Append(old.vals, value),
                   IF Len(old.vals) < old.cap THEN old.cap ELSE GrowCap(old.cap))
  IN [j \in DOMAIN h \cup {k} |-> IF j = k THEN new ELSE h[j]]

\* What the store of header.Add(key, value) on h does to another header
\* whose slice under the key has the same backing array (Clone copies the
\* slices, not the arrays): the slot after the values h shows is written;
\* the other slice shows the new value when it shows that slot
StoreThrough(h, other, key, value) ==
  LET k == CanonicalMIMEHeaderKey(key)
      slot == Len(h[k].vals) + 1
  IN [j \in DOMAIN other |->
        IF j = k /\ slot <= Len(other[j].vals)
          THEN [other[j] EXCEPT !.vals = [other[j].vals EXCEPT ![slot] = value]]
          ELSE other[j]]
hdrContentTypeKey == "Content-Type"

\* A BodyProvider: what it is (bodyProvider of an io.Reader, jsonBodyProvider,
\* ...) and whether its payload can be encoded; a BodyMultipartProvider likewise
NoProvider == [kind |-> "nil", ok |-> TRUE]
Provider(kind, ok) == [kind |-> kind, ok |-> ok]
BodyProviders == {Provider("body", TRUE), Provider("json", TRUE), Provider("json", FALSE)}
MultipartProviders == {Provider("multipart", TRUE), Provider("multipart", FALSE)}
\* p.ContentType()
ContentType(p) ==
  CASE p.kind = "json" -> "application/json"
    [] p.kind = "form" -> "application/x-www-form-urlencoded"
    [] p.kind = "urlencoded" -> "application/x-www-form-urlencoded"
    [] p.kind = "xml" -> "text/xml"
    [] p.kind = "multipart" -> "multipart/form-data"
    [] OTHER -> ""

SuccessDeciders == {"DecodeOnSuccess", "always", "never"}
ResponseDecoders == {"jsonDecoder", "xmlDecoder"}

\* New(opts...): the builder with its defaults and the configured decoder
\* and success decider
New(decoder, isSuccess) ==
  [httpClient |-> "defaultClient", method |-> "GET", baseURL |-> NilURL, rawURL |-> <<>>,
   header |-> NoHeader,
   queryStructs |-> <<>>, bodyProvider |-> NoProvider, multipartBodyProvider |-> NoProvider,
   responseDecoder |-> decoder, isSuccess |-> isSuccess]

\* the option WithHttpClient(httpClient) of New: a nil client is ignored
HttpClients == {"nil", "custom"}
WithHttpClient(s, httpClient) ==
  IF httpClient = "nil" THEN s ELSE [s EXCEPT !.httpClient = httpClient]

\* s.AddHeader(key, value)
AddHeader(s, key, value) == [s EXCEPT !.header = HeaderAdd(s.header, key, value)]

\* s.SetHeader(key, value)
SetHeader(s, key, value) == [s EXCEPT !.header = HeaderSet(s.header, key, value)]

\* s.Clone(): a new header map holding the slices of s.header, a copy of
\* queryStructs, the other fields but multipartBodyProvider, which the
\* clone starts without.  s.baseURL.String() dereferences s.baseURL: Clone
\* panics on a builder whose baseURL is nil.
ClonePanics(s) == s.baseURL.nil
Clone(s) ==
  [s EXCEPT !.baseURL = Parse(String(s.baseURL)).url,
            !.multipartBodyProvider = NoProvider]

\* s.Base(baseURL), for a baseURL that parses (Base panics on the others)
Base(s, baseURL) ==
  LET u == Parse(baseURL).url
  IN [s EXCEPT !.baseURL = u, !.rawURL = String(u)]

\* s.Path(path): a path that does not parse leaves rawURL as it is; without
\* a baseURL the path becomes the baseURL
PathResolvesUnparsed(s, path) ==
  LET ref == URL("", path)
      base == IF s.baseURL.nil THEN ref ELSE s.baseURL
      resolved == String(ResolveReference(base, ref))
  IN [s EXCEPT !.baseURL = base,
               !.rawURL = IF HasSuffixSlash(path) /\ ~HasSuffixSlash(resolved)
                            THEN Append(resolved, "/") ELSE resolved]

Path(s, path) ==
  LET parsed == Parse(path)
      t == IF s.baseURL.nil THEN [s EXCEPT !.baseURL = parsed.url] ELSE s
      resolved == String(ResolveReference(t.baseURL, parsed.url))
  IN IF ~parsed.ok THEN t
     ELSE [t EXCEPT !.rawURL = IF HasSuffixSlash(path) /\ ~HasSuffixSlash(resolved)
                                 THEN Append(resolved, "/") ELSE resolved]

\* s.Head(pathURL), s.Get(pathURL), ...: the method, then Path
Methods == {"HEAD", "GET", "POST", "PUT", "PATCH", "DELETE", "OPTIONS"}
MethodSetter(s, method, pathURL) == Path([s EXCEPT !.method = method], pathURL)

\* s.QueryStruct(queryStruct), for a non-nil queryStruct
QueryStruct(s, queryStruct) == [s EXCEPT !.queryStructs = Append(s.queryStructs, queryStruct)]

\* s.BodyProvider(body): a nil body leaves s as it is
BodyProviderNilClears(s, p) ==
  LET t == [s EXCEPT !.bodyProvider = p, !.multipartBodyProvider = NoProvider]
  IN IF ContentType(p) # "" THEN SetHeader(t, hdrContentTypeKey, ContentType(p)) ELSE t

BodyProvider(s, p) ==
  LET t == [s EXCEPT !.bodyProvider = p, !.multipartBodyProvider = NoProvider]
  IN IF p.kind = "nil" THEN s
     ELSE IF ContentType(p) # "" THEN SetHeader(t, hdrContentTypeKey, ContentType(p))
     ELSE t

\* s.BodyMultipartProvider(body): a nil body leaves s as it is
BodyMultipartProviderKeepsBody(s, p) ==
  IF p.kind = "nil" THEN s ELSE [s EXCEPT !.multipartBodyProvider = p]

BodyMultipartProvider(s, p) ==
  IF p.kind = "nil" THEN s
  ELSE [s EXCEPT !.bodyProvider = NoProvider, !.multipartBodyProvider = p]

\* The arguments of the body setters: nil, a payload its provider can
\* encode ("ok") or one it cannot ("bad"; the providers of Body and of
\* BodyUrlEncode encode every payload)
Payloads == {"nil", "ok", "bad"}
Readers == {"nil", "ok"}
\* the provider a setter wraps its argument in
ProviderOf(kind, payload) == Provider(kind, payload = "ok")

\* s.Body(body), s.BodyJSON(bodyJSON), s.BodyForm(bodyForm),
\* s.BodyUrlEncode(values), s.BodyXML(bodyXml): nothing for a nil
\* argument, else BodyProvider with the provider of the setter
SetBody(s, rd) == IF rd = "nil" THEN s ELSE BodyProvider(s, ProviderOf("body", rd))
BodyJSON(s, bodyJSON) ==
  IF bodyJSON = "nil" THEN s ELSE BodyProvider(s, ProviderOf("json", bodyJSON))
BodyForm(s, bodyForm) ==
  IF bodyForm = "nil" THEN s ELSE BodyProvider(s, ProviderOf("form", bodyForm))
BodyUrlEncode(s, values) ==
  IF values = "nil" THEN s ELSE BodyProvider(s, ProviderOf("urlencoded", values))
BodyXML(s, bodyXml) == IF bodyXml = "nil" THEN s ELSE BodyProvider(s, ProviderOf("xml", bodyXml))

\* s.BodyMultipart(payload, filePayload): nothing when both are nil
BodyMultipart(s, payload, filePayload) ==
  IF payload = "nil" /\ filePayload = "nil" THEN s
  ELSE BodyMultipartProvider(s, Provider("multipart", payload # "bad" /\ filePayload # "bad"))

\* ------------------------------------------------------------------ Rest: Request
\* the errors of Request()
URLErr == [kind |-> "url"]
QueryErr == [kind |-> "query"]
BodyEncodeErr == [kind |-> "bodyEncode"]

\* an *http.Request, or nil
NilRequest == [nil |-> TRUE, method |-> "", url |-> <<>>, query |-> <<>>, header |-> NoHeader,
               body |-> "nil"]

\* a query struct is a url tagged struct ("struct"), or a value goquery
\* cannot encode ("notStruct")
QueryStructs == {"struct", "notStruct"}

\* s.Request(): the request or the error, and the builder after the call
\* (a multipart provider makes Request set the builder's Content-Type)
Request(s) ==
  LET reqURL == Parse(s.rawURL)
      queryOk == \A k \in 1..Len(s.queryStructs) : s.queryStructs[k] = "struct"
      multipart == s.multipartBodyProvider.kind # "nil"
      provider == IF multipart THEN s.multipartBodyProvider ELSE s.bodyProvider
      t == IF multipart THEN SetHeader(s, hdrContentTypeKey, ContentType(provider)) ELSE s
  IN IF ~reqURL.ok THEN [req |-> NilRequest, err |-> URLErr, rest |-> s]
     ELSE IF ~queryOk THEN [req |-> NilRequest, err |-> QueryErr, rest |-> s]
     ELSE IF ~provider.ok THEN [req |-> NilRequest, err |-> BodyEncodeErr, rest |-> s]
     ELSE [req |-> [nil |-> FALSE, method |-> t.method, url |-> String(reqURL.url),
                    query |-> t.queryStructs, header |-> Values(t.header),
                    body |-> provider.kind],
           err |-> Nil, rest |-> t]

\* ------------------------------------------------------------------ Rest: Do
\* A response body: what its bytes are to a decoder (doc), whether the
\* connection breaks before its end (fails), whether a read has reached its
\* end (EOF or the read error), whether it is closed and whether it had been
\* read to its end when it was closed.
\*   doc: "value"     an encoding of a value of the target's type
\*        "mismatch"  well-formed, but one field holds a value of another type
\*        "malformed" not well-formed from some point on
\*        "empty"     no bytes
Docs == {"value", "mismatch", "malformed", "empty"}
RespBody(doc, fails) ==
  [doc |-> doc, fails |-> fails, ended |-> FALSE, closed |-> FALSE, endedAtClose |-> FALSE]

\* ioutil.ReadAll(resp.Body) and io.Copy(ioutil.Discard, resp.Body): read
\* until EOF or an error; nothing can be read from a closed body
ReadToEnd(b) == IF b.closed THEN b ELSE [b EXCEPT !.ended = TRUE]
\* resp.Body.Close()
Close(b) == IF b.closed THEN b ELSE [b EXCEPT !.closed = TRUE, !.endedAtClose = b.ended]

\* the errors of decoding
DecodeErr == [kind |-> "decode"]
EOFErr == [kind |-> "EOF"]

\* A decode target: nil, a *Raw or a pointer to a value to decode into; val
\* says what the value pointed to holds: its prior value ("zero"), the whole
\* decoded value ("full") or a part of it ("partial")
Target(kind) == [kind |-> kind, val |-> "zero"]
Targets == {Target("nil"), Target("Raw"), Target("struct")}

\* s.responseDecoder.Decode(resp, v).  json.Decoder reads the whole next
\* value before it stores anything and stores the fields that fit before it
\* reports a type mismatch; xml.Decoder stores while it reads.
Decode(decoder, b, v) ==
  IF b.fails THEN
    [v |-> IF decoder = "xmlDecoder" /\ b.doc # "empty" THEN [v EXCEPT !.val = "partial"] ELSE v,
     err |-> ReadErr, body |-> ReadToEnd(b)]
  ELSE IF b.doc = "empty" THEN [v |-> v, err |-> EOFErr, body |-> ReadToEnd(b)]
  ELSE IF b.doc = "value" THEN [v |-> [v EXCEPT !.val = "full"], err |-> Nil, body |-> b]
  ELSE IF b.doc = "mismatch" THEN [v |-> [v EXCEPT !.val = "partial"], err |-> DecodeErr, body |-> b]
  ELSE [v |-> IF decoder = "xmlDecoder" THEN [v EXCEPT !.val = "partial"] ELSE v,
        err |-> DecodeErr, body |-> b]

\* respBody, err := ioutil.ReadAll(resp.Body); *sv = respBody
ReadRawDropsError(b, v) ==
  [v |-> [v EXCEPT !.val = IF b.fails THEN "partial" ELSE "full"], err |-> Nil,
   body |-> ReadToEnd(b)]

ReadRaw(b, v) ==
  [v |-> [v EXCEPT !.val = IF b.fails THEN "partial" ELSE "full"],
   err |-> IF b.fails THEN ReadErr ELSE Nil, body |-> ReadToEnd(b)]

\* s.isSuccess(resp)
DecodeOnSuccess(status) == 200 <= status /\ status <= 299
isSuccess(decider, status) ==
  IF decider = "DecodeOnSuccess" THEN DecodeOnSuccess(status) ELSE decider = "always"

\* one branch of decodeResponse: the target of the branch, and whether the
\* branch is the failure branch (which reads the body when its target is nil)
decodeInto(s, b, v, failure) ==
  IF v.kind = "nil" THEN [v |-> v, err |-> Nil, body |-> IF failure THEN ReadToEnd(b) ELSE b]
  ELSE IF v.kind = "Raw" THEN ReadRaw(b, v)
  ELSE Decode(s.responseDecoder, b, v)

\* s.decodeResponse(resp, successV, failureV)
decodeResponseIgnoresDecider(s, status, b, sv, fv) ==
  LET d == decodeInto(s, b, sv, FALSE)
  IN [successV |-> d.v, failureV |-> fv, err |-> d.err, body |-> d.body]

decodeResponse(s, status, b, sv, fv) ==
  IF isSuccess(s.isSuccess, status)
    THEN LET d == decodeInto(s, b, sv, FALSE)
         IN [successV |-> d.v, failureV |-> fv, err |-> d.err, body |-> d.body]
    ELSE LET d == decodeInto(s, b, fv, TRUE)
         IN [successV |-> sv, failureV |-> d.v, err |-> d.err, body |-> d.body]

\* the deferred calls of Rest.Do, run in reverse order of their defer
\* statements: io.Copy(ioutil.Discard, resp.Body), then resp.Body.Close()
DoDeferredCloseFirst(b) == ReadToEnd(Close(b))
DoDeferred(b) == Close(ReadToEnd(b))

\* if resp.StatusCode == http.StatusNoContent: no decoding
StatusNoContent == 204
SkipsDecodeNever(status) == FALSE
SkipsDecode(status) == status = StatusNoContent

\* a *Response: nil, or the wrapper NewResponse(resp) of a response (which
\* may be nil)
NilResponse == [nil |-> TRUE, Response |-> "nil"]
NewResponse(status) == [nil |-> FALSE, Response |-> status]

\* What s.httpClient.Do hands to Rest.Do: a response with a body and no
\* error, an error without a response, or an error with a response whose
\* body is closed
RestOutcome(hasResp, status, b, err) ==
  [hasResp |-> hasResp, status |-> status, body |-> b, err |-> err]
RestStatuses == {200, 204, 404, 500}

\* s.Do(req, successV, failureV), given what s.httpClient.Do returned:
\* the pair returned, the targets and the body after the call
RestDo(s, o, sv, fv) ==
  LET resp0 == IF o.hasResp THEN NewResponse(o.status) ELSE NewResponse("nil")
      d == IF sv.kind # "nil" \/ fv.kind # "nil"
             THEN decodeResponse(s, o.status, o.body, sv, fv)
             ELSE [successV |-> sv, failureV |-> fv, err |-> Nil, body |-> o.body]
  IN IF o.err # Nil
       THEN [resp |-> resp0, err |-> o.err, successV |-> sv, failureV |-> fv, body |-> o.body]
     ELSE IF SkipsDecode(o.status)
       THEN [resp |-> resp0, err |-> Nil, successV |-> sv, failureV |-> fv,
             body |-> DoDeferred(o.body)]
     ELSE [resp |-> resp0, err |-> d.err, successV |-> d.successV, failureV |-> d.failureV,
           body |-> DoDeferred(d.body)]

\* What s.Receive(successV, failureV) does, given what s.httpClient.Do
\* returns when it is called: Request(), and Do unless Request failed
ReceiveIgnoresRequestError(s, o, sv, fv) ==
  LET r == Request(s)
      d == RestDo(r.rest, o, sv, fv)
  IN [rest |-> r.rest, req |-> r, called |-> TRUE, resp |-> d.resp, err |-> d.err,
      successV |-> d.successV, failureV |-> d.failureV, body |-> d.body]

Receive(s, o, sv, fv) ==
  LET r == Request(s)
      d == RestDo(r.rest, o, sv, fv)
  IN IF r.err # Nil
       THEN [rest |-> r.rest, req |-> r, called |-> FALSE, resp |-> NilResponse, err |-> r.err,
             successV |-> sv, failureV |-> fv, body |-> o.body]
     ELSE [rest |-> r.rest, req |-> r, called |-> TRUE, resp |-> d.resp, err |-> d.err,
           successV |-> d.successV, failureV |-> d.failureV, body |-> d.body]

\* the variables of the builder when no builder is in use
NoRestReq == [req |-> NilRequest, err |-> Nil]
NoRestOutcome == RestOutcome(FALSE, 0, RespBody("empty", FALSE), Nil)
NoPathErr == [last |-> FALSE, rawURL |-> <<>>]
NoClone == [made |-> FALSE, c |-> New("jsonDecoder", "DecodeOnSuccess")]
NoLastBody == [slot |-> "none", provider |-> NoProvider, lastNil |-> FALSE]

\* no Invoker was made; repositories.New(); Subscribe was not called
NoInvoker == [ctx |-> "live", cliCtx |-> "nil"]
NewRepo == [mapBlockInfo |-> <<>>, blockTransactions |-> <<>>]
NoGoroutine == [pc |-> "none"]
\* no clone was made, no header or body call is on record
NoBuilderCalls ==
  /\ clone = NoClone
  /\ cloneOps = 0
  /\ aliased = {}
  /\ atClone = New("jsonDecoder", "DecodeOnSuccess")
  /\ want = <<>>
  /\ lastBody = NoLastBody
  /\ heap = <<>>
  /\ built = <<>>
  /\ invoker = NoInvoker
  /\ repo = NewRepo
  /\ gor = NoGoroutine
  /\ rpcs = <<>>
NoRestCall ==
  /\ rest = New("jsonDecoder", "DecodeOnSuccess")
  /\ restPc = "idle"
  /\ ops = 0
  /\ pathErr = NoPathErr
  /\ successV = Target("nil")
  /\ failureV = Target("nil")
  /\ doerCalls = 0
  /\ restReq = NoRestReq
  /\ restResp = NoRestOutcome
  /\ restResult = NoResult
  /\ NoBuilderCalls

\* ------------------------------------------------------------------ DoCustom
\* drainBody(resp.Body): reads the body (up to respReadLimit) and closes it
drainBodyLeavesOpen(bs, r) == bs
drainBody(bs, r) == IF r.nil THEN bs ELSE [bs EXCEPT ![r.id] = "closed"]

\* remain := c.RetryMax - i; if remain <= 0 { break }
BudgetExhaustedOffByOne(c, idx) == c.RetryMax - idx < 0
BudgetExhaustedEarly(c, idx) == c.RetryMax - idx <= 1
BudgetExhausted(c, idx) == c.RetryMax - idx <= 0

\* the success criteria: doErr == nil && checkErr == nil && !shouldRetry
SucceededNoEarlierError(dErr, cErr, retry) ==
  dErr = Nil /\ cErr = Nil /\ ~retry /\ \A n \in DOMAIN errs : errs[n] = Nil
Succeeded(dErr, cErr, retry) == dErr = Nil /\ cErr = Nil /\ ~retry

\* err := doErr; if checkErr != nil { err = checkErr }
EffectiveErrPrefersDoErr(dErr, cErr) == IF dErr # Nil THEN dErr ELSE cErr
EffectiveErr(dErr, cErr) == IF cErr # Nil THEN cErr ELSE dErr

\* What DoCustom does after the loop: [result, handlerCall, bodies]
TerminalDrainsOnSuccess(c, r, dErr, cErr, retry, n, bs) ==
  IF Succeeded(dErr, cErr, retry)
    THEN [result |-> Returned(r, Nil), handlerCall |-> NoCall, bodies |-> drainBody(bs, r)]
  ELSE IF c.ErrorHandler # "nil"
    THEN [result |-> ErrorHandler(c.ErrorHandler, r, EffectiveErr(dErr, cErr), n),
          handlerCall |-> Called(r, EffectiveErr(dErr, cErr), n), bodies |-> bs]
  ELSE [result |-> Returned(NilResp, GivingUp(n, EffectiveErr(dErr, cErr))),
        handlerCall |-> NoCall, bodies |-> drainBody(bs, r)]

TerminalSkipsHandler(c, r, dErr, cErr, retry, n, bs) ==
  IF Succeeded(dErr, cErr, retry)
    THEN [result |-> Returned(r, Nil), handlerCall |-> NoCall, bodies |-> bs]
  ELSE [result |-> Returned(NilResp, GivingUp(n, EffectiveErr(dErr, cErr))),
        handlerCall |-> NoCall, bodies |-> drainBody(bs, r)]

TerminalDropsCause(c, r, dErr, cErr, retry, n, bs) ==
  IF Succeeded(dErr, cErr, retry)
    THEN [result |-> Returned(r, Nil), handlerCall |-> NoCall, bodies |-> bs]
  ELSE IF c.ErrorHandler # "nil"
    THEN [result |-> ErrorHandler(c.ErrorHandler, r, EffectiveErr(dErr, cErr), n),
          handlerCall |-> Called(r, EffectiveErr(dErr, cErr), n), bodies |-> bs]
  ELSE [result |-> Returned(NilResp, GivingUp(n, Nil)),
        handlerCall |-> NoCall, bodies |-> drainBody(bs, r)]

TerminalLeavesBodyOpen(c, r, dErr, cErr, retry, n, bs) ==
  IF Succeeded(dErr, cErr, retry)
    THEN [result |-> Returned(r, Nil), handlerCall |-> NoCall, bodies |-> bs]
  ELSE IF c.ErrorHandler # "nil"
    THEN [result |-> ErrorHandler(c.ErrorHandler, r, EffectiveErr(dErr, cErr), n),
          handlerCall |-> Called(r, EffectiveErr(dErr, cErr), n), bodies |-> bs]
  ELSE [result |-> Returned(NilResp, GivingUp(n, EffectiveErr(dErr, cErr))),
        handlerCall |-> NoCall, bodies |-> bs]

Terminal(c, r, dErr, cErr, retry, n, bs) ==
  IF Succeeded(dErr, cErr, retry)
    THEN [result |-> Returned(r, Nil), handlerCall |-> NoCall, bodies |-> bs]
  ELSE IF c.ErrorHandler # "nil"
    THEN [result |-> ErrorHandler(c.ErrorHandler, r, EffectiveErr(dErr, cErr), n),
          handlerCall |-> Called(r, EffectiveErr(dErr, cErr), n), bodies |-> bs]
  ELSE [result |-> Returned(NilResp, GivingUp(n, EffectiveErr(dErr, cErr))),
        handlerCall |-> NoCall, bodies |-> drainBody(bs, r)]

\* The select of the backoff wait: which case runs, given the state of the
\* context and whether the timer channel is ready
SelectIgnoresDone(c, timerReady) == IF timerReady THEN {"timer"} ELSE {}
Select(c, timerReady) ==
  (IF c # "live" THEN {"done"} ELSE {}) \cup (IF timerReady THEN {"timer"} ELSE {})

Init ==
  /\ doer \in RetryDoers
  /\ ctx = "live"
  /\ pc = "new"
  /\ i = 0
  /\ attempt = 0
  /\ resp = NilResp
  /\ doErr = Nil
  /\ shouldRetry = FALSE
  /\ checkErr = Nil
  /\ wait = 0
  /\ bodies = <<>>
  /\ invocations = 0
  /\ result = NoResult
  /\ handlerCall = NoCall
  /\ ctxAtCheck = "live"
  /\ cancelledInWait = FALSE
  /\ exit = "none"
  /\ errs = <<>>
  /\ rawBody \in RawBodies
  /\ body = NoReaderFunc
  /\ Body = rawBody
  /\ seen = <<>>
  /\ verdicts = <<>>
  /\ backoffCalls = <<>>
  /\ waited = 0
  /\ calls = NoCalls
  /\ probe = NoProbe
  /\ NoRestCall

\* RetryDoer.Do(req): FromRequest reads r.Body to its end into a buffer and
\* stores a ReaderFunc over it; a read error is returned before any attempt.
\* req.Body is still r.Body, now read to its end.
Do ==
  LET re == FromRequest(rawBody)
      consumed == IF rawBody.nil THEN rawBody ELSE [rawBody EXCEPT !.pos = Len(rawBody.data)]
  IN /\ pc = "new"
     /\ IF re.err # Nil
          THEN /\ result' = Returned(NilResp, re.err)
               /\ pc' = "done"
               /\ exit' = "fromRequest"
               /\ UNCHANGED <<rawBody, body, Body>>
          ELSE /\ body' = re.bodyReader
               /\ rawBody' = consumed
               /\ Body' = consumed
               /\ pc' = "start"
               /\ UNCHANGED <<result, exit>>
     /\ UNCHANGED <<doer, ctx, i, attempt, resp, doErr, shouldRetry, checkErr, wait, bodies,
                    invocations, handlerCall, ctxAtCheck, cancelledInWait, errs, seen, probe>>
     /\ UNCHANGED histVars
     /\ UNCHANGED calls
     /\ UNCHANGED restVars

\* The head of an iteration: attempt++, req.rewind(), and the call of
\* c.HTTPClient.Do(req.Request).  rewind installs a fresh reader from the
\* request's body factory; the factory FromRequest builds never fails, so
\* the early return on a rewind error is not taken.  seen records what
\* req.Body holds for the executor when it is called.
DoCustomAttempt ==
  /\ pc = "start"
  /\ attempt' = attempt + 1
  /\ Body' = rewind(body, Body)
  /\ seen' = Append(seen, Remaining(Body'))
  /\ invocations' = invocations + 1
  /\ pc' = "inflight"
  /\ UNCHANGED <<doer, ctx, i, resp, doErr, shouldRetry, checkErr, wait, bodies, result,
                 handlerCall, ctxAtCheck, cancelledInWait, exit, errs, rawBody, body, probe>>
  /\ UNCHANGED histVars
  /\ UNCHANGED calls
  /\ UNCHANGED restVars

\* c.HTTPClient.Do returns o, having read req.Body up to position sent; the
\* rest of the iteration up to the select, or, when the loop is left, to the
\* return of DoCustom.  A panic of the Backoff call ends the call without a
\* result.
ExecutorReturns(o, sent) ==
  LET r == IF o.hasResp THEN Response(attempt, o.status, o.has, o.ra) ELSE NilResp
      rb == IF ~o.hasResp THEN "none" ELSE IF o.err # Nil THEN "closed" ELSE "open"
      bs == Append(bodies, rb)
      v == CheckRetry(doer.CheckRetry, ctx, r, o.err)
      t == Terminal(doer, r, o.err, v.err, v.retry, attempt, bs)
  IN /\ pc = "inflight"
     /\ sent \in Body.pos..Len(Body.data)
     /\ Body' = [Body EXCEPT !.pos = sent]
     /\ resp' = r
     /\ doErr' = o.err
     /\ errs' = Append(errs, o.err)
     /\ shouldRetry' = v.retry
     /\ checkErr' = v.err
     /\ ctxAtCheck' = ctx
     /\ verdicts' = Append(verdicts, v.retry)
     /\ \/ /\ ~v.retry \/ BudgetExhausted(doer, i)
           /\ result' = t.result
           /\ handlerCall' = t.handlerCall
           /\ bodies' = t.bodies
           /\ pc' = "done"
           /\ exit' = "loop"
           /\ wait' = wait
           /\ UNCHANGED backoffCalls
        \/ /\ v.retry /\ ~BudgetExhausted(doer, i)
           /\ bodies' = IF o.err = Nil THEN drainBody(bs, r) ELSE bs
           /\ backoffCalls' = Append(backoffCalls, i)
           /\ \E conv \in ConvModes, draw \in RandDraws :
                LET b == Backoff(doer.Backoff, doer.RetryWaitMin, doer.RetryWaitMax, i, r,
                                 conv, draw)
                IN IF b.panic THEN pc' = "panicked" /\ wait' = wait
                   ELSE pc' = "backoff" /\ wait' = b.d
           /\ UNCHANGED <<result, handlerCall, exit>>
     /\ UNCHANGED <<doer, ctx, i, attempt, invocations, cancelledInWait, rawBody, body, seen,
                    waited, probe>>
     /\ UNCHANGED calls
     /\ UNCHANGED restVars

\* The call reaches the select: time.After(wait) starts the timer.  A case
\* that is ready runs at once (the timer can be ready only when wait <= 0);
\* otherwise the call is suspended.
EnterSelect ==
  /\ pc = "backoff"
  /\ \/ /\ Select(ctx, FALSE) = {}
        /\ pc' = "wait"
        /\ UNCHANGED <<i, result, exit, waited>>
     \/ /\ "done" \in Select(ctx, wait <= 0)
        /\ result' = Returned(NilResp, CtxErr(ctx))
        /\ pc' = "done"
        /\ exit' = "select"
        /\ UNCHANGED <<i, waited>>
     \/ /\ Select(ctx, FALSE) # {}
        /\ "timer" \in Select(ctx, wait <= 0)
        /\ i' = i + 1
        /\ waited' = waited + 1
        /\ pc' = "start"
        /\ UNCHANGED <<result, exit>>
  /\ UNCHANGED <<doer, ctx, attempt, resp, doErr, shouldRetry, checkErr, wait, bodies,
                 invocations, handlerCall, ctxAtCheck, cancelledInWait, errs, verdicts,
                 backoffCalls, probe>>
  /\ UNCHANGED reqVars
  /\ UNCHANGED calls
  /\ UNCHANGED restVars

\* The timer fires while the call is suspended and the context is live:
\* case <-time.After(wait), then the shallow copy of the request and i++
SelectTimer ==
  /\ pc = "wait"
  /\ "done" \notin Select(ctx, TRUE)
  /\ i' = i + 1
  /\ waited' = waited + 1
  /\ pc' = "start"
  /\ UNCHANGED <<doer, ctx, attempt, resp, doErr, shouldRetry, checkErr, wait, bodies,
                 invocations, result, handlerCall, ctxAtCheck, cancelledInWait, exit, errs,
                 verdicts, backoffCalls, probe>>
  /\ UNCHANGED reqVars
  /\ UNCHANGED calls
  /\ UNCHANGED restVars

\* The context was cancelled while the call was suspended:
\* case <-req.Context().Done(): return nil, req.Context().Err()
SelectDone ==
  /\ pc = "wait"
  /\ "done" \in Select(ctx, FALSE)
  /\ result' = Returned(NilResp, CtxErr(ctx))
  /\ pc' = "done"
  /\ exit' = "select"
  /\ UNCHANGED <<doer, ctx, i, attempt, resp, doErr, shouldRetry, checkErr, wait, bodies,
                 invocations, handlerCall, ctxAtCheck, cancelledInWait, errs, probe>>
  /\ UNCHANGED histVars
  /\ UNCHANGED reqVars
  /\ UNCHANGED calls
  /\ UNCHANGED restVars

\* The caller cancels the request's context, or its deadline passes
CancelContext(c) ==
  /\ ctx = "live"
  /\ pc \in {"start", "inflight", "backoff", "wait"}
  /\ ctx' = c
  /\ cancelledInWait' = (pc = "wait")
  /\ UNCHANGED <<doer, pc, i, attempt, resp, doErr, shouldRetry, checkErr, wait, bodies,
                 invocations, result, handlerCall, ctxAtCheck, exit, errs, probe>>
  /\ UNCHANGED histVars
  /\ UNCHANGED reqVars
  /\ UNCHANGED calls
  /\ UNCHANGED restVars

Next ==
  \/ Do
  \/ DoCustomAttempt
  \/ \E o \in ExecOutcomes, sent \in 0..Len(Body.data) : ExecutorReturns(o, sent)
  \/ EnterSelect
  \/ SelectTimer
  \/ SelectDone
  \/ \E c \in {"Canceled", "DeadlineExceeded"} : CancelContext(c)

Spec == Init /\ [][Next]_vars

\* ------------------------------------------------------------------ the functions on their own
\* No DoCustom call is in progress
IdleDoer ==
  [RetryMax |-> 0, RetryWaitMin |-> 0, RetryWaitMax |-> 0, CheckRetry |-> "DefaultRetryPolicy",
   Backoff |-> "DefaultBackoff", ErrorHandler |-> "nil"]
NoSingleCall ==
  /\ ctx = "live"
  /\ pc = "idle"
  /\ i = 0
  /\ attempt = 0
  /\ resp = NilResp
  /\ doErr = Nil
  /\ shouldRetry = FALSE
  /\ checkErr = Nil
  /\ wait = 0
  /\ bodies = <<>>
  /\ invocations = 0
  /\ result = NoResult
  /\ handlerCall = NoCall
  /\ ctxAtCheck = "live"
  /\ cancelledInWait = FALSE
  /\ exit = "none"
  /\ errs = <<>>
  /\ rawBody = NoBody
  /\ body = NoReaderFunc
  /\ Body = NoBody
  /\ seen = <<>>
  /\ verdicts = <<>>
  /\ backoffCalls = <<>>
  /\ waited = 0
NoCallInProgress ==
  /\ doer = IdleDoer
  /\ NoSingleCall
  /\ calls = NoCalls

\* Inputs of a CheckRetry policy.  The executor returns a response whenever
\* it returns no error.
StatusCodes ==
  {-1, 0, 100, 200, 204, 302, 400, 404, 428, 429, 430, 499, 500, 501, 502, 503, 599, 600, 999}
PolicyProbes ==
  {[fn |-> "policy", policy |-> p, ctx |-> c, resp |-> r, err |-> e, applied |-> FALSE,
    out |-> Verdict(FALSE, Nil)] :
     p \in Policies, c \in CtxStates,
     r \in {NilResp} \cup {Response(1, s, FALSE, <<>>) : s \in StatusCodes},
     e \in {Nil} \cup TransportErrs}

InitPolicy ==
  /\ NoCallInProgress
  /\ NoRestCall
  /\ probe \in {q \in PolicyProbes : q.err = Nil => ~q.resp.nil}

ApplyPolicy ==
  /\ probe.fn = "policy"
  /\ ~probe.applied
  /\ probe' = [probe EXCEPT !.applied = TRUE,
                            !.out = CheckRetry(probe.policy, probe.ctx, probe.resp, probe.err)]
  /\ UNCHANGED callVars
  /\ UNCHANGED restVars

NextPolicy == ApplyPolicy

SpecPolicy == InitPolicy /\ [][NextPolicy]_vars

\* Inputs of a Backoff function: DefaultBackoff on every min and max and
\* every attempt number up to MaxAttemptNum without a response, and on
\* sampled durations with responses; the other backoffs on sampled durations.
DurSamples == {MinDur, -Second, -1, 0, 1, 2, Second, MaxDur}
BackoffResps ==
  {Response(1, 429, FALSE, <<>>), Response(1, 503, TRUE, <<"2">>)}
  \cup {Response(1, 429, TRUE, ra) :
          ra \in RetryAfterValues \cup {<<>>, <<"+", "3">>, <<"9", "9">>, <<"2", "s">>, <<"-">>}}
BackoffProbe(b, min, max, n, r) ==
  [fn |-> "backoff", backoff |-> b, min |-> min, max |-> max, n |-> n, resp |-> r,
   applied |-> FALSE, conv |-> "", out |-> Waits(0), next |-> Waits(0)]
InitBackoff ==
  /\ NoCallInProgress
  /\ NoRestCall
  /\ \/ \E min \in Durations, max \in Durations, n \in 0..MaxAttemptNum :
          probe = BackoffProbe("DefaultBackoff", min, max, n, NilResp)
     \/ \E min \in DurSamples, max \in DurSamples, n \in 0..1, r \in BackoffResps :
          probe = BackoffProbe("DefaultBackoff", min, max, n, r)
     \/ \E b \in {"LinearJitterBackoff", "CustomBackoff"}, min \in DurSamples,
           max \in DurSamples, n \in 0..MaxAttemptNum :
          probe = BackoffProbe(b, min, max, n, NilResp)

\* The backoff applied to attempt number n and to n + 1, in one build and
\* with the same entropy
ApplyBackoff ==
  /\ probe.fn = "backoff"
  /\ ~probe.applied
  /\ \E conv \in (IF probe.backoff = "DefaultBackoff" THEN ConvModes ELSE {"indefinite"}),
        draw \in (IF probe.backoff = "LinearJitterBackoff" THEN RandDraws ELSE {[err |-> TRUE, num |-> 0]}) :
       probe' = [probe EXCEPT
                   !.applied = TRUE,
                   !.conv = conv,
                   !.out = Backoff(probe.backoff, probe.min, probe.max, probe.n, probe.resp,
                                   conv, draw),
                   !.next = Backoff(probe.backoff, probe.min, probe.max, probe.n + 1,
                                    probe.resp, conv, draw)]
  /\ UNCHANGED callVars
  /\ UNCHANGED restVars

NextBackoff == ApplyBackoff

SpecBackoff == InitBackoff /\ [][NextBackoff]_vars

\* ------------------------------------------------------------------ Rest: building and Receive
\* the number of setter calls made on one builder, and the number when
\* they are all calls of Base, Path and the method setters
MaxOps == 2
MaxPathCalls == 3

\* the strings given to Base, Path and the method setters
BaseStrings ==
  {<<"https://a.io">>, <<"https://a.io", "/">>, <<"https://a.io", "/", "foo">>, <<"%zz">>}
PathStrings ==
  {<<>>, <<"foo">>, <<"foo", "/">>, <<"/", "bar">>, <<"https://b.io">>, <<"%zz">>,
   <<"foo", "%zz">>}
SetterMethods == {"POST", "DELETE"}

InitRest ==
  /\ NoCallInProgress
  /\ probe = NoProbe
  /\ \E decoder \in ResponseDecoders, decider \in SuccessDeciders : rest = New(decoder, decider)
  /\ restPc = "build"
  /\ ops = 0
  /\ pathErr = NoPathErr
  /\ successV = Target("nil")
  /\ failureV = Target("nil")
  /\ doerCalls = 0
  /\ restReq = NoRestReq
  /\ restResp = NoRestOutcome
  /\ restResult = NoResult
  /\ NoBuilderCalls

\* a setter call on the builder that is no Path call
Setter(s) ==
  /\ restPc = "build"
  /\ ops < MaxOps
  /\ ops' = ops + 1
  /\ rest' = s
  /\ pathErr' = [pathErr EXCEPT !.last = FALSE]
  /\ UNCHANGED <<restPc, successV, failureV, doerCalls, restReq, restResp, restResult>>
  /\ UNCHANGED builderVars
  /\ UNCHANGED callVars
  /\ UNCHANGED probe

\* s.Base(baseURL), s.Path(path) and the method setters s.Head(pathURL),
\* s.Get(pathURL), ...; a builder that had no other calls takes
\* MaxPathCalls of them
URLCallsOnly(s) ==
  /\ s.header = NoHeader
  /\ s.queryStructs = <<>>
  /\ s.bodyProvider = NoProvider
  /\ s.multipartBodyProvider = NoProvider
MayCallURLSetter == ops < MaxOps \/ (ops < MaxPathCalls /\ URLCallsOnly(rest))

PathSetter(s, path) ==
  /\ restPc = "build"
  /\ MayCallURLSetter
  /\ ops' = ops + 1
  /\ rest' = s
  /\ pathErr' = IF Parse(path).ok THEN [pathErr EXCEPT !.last = FALSE]
                ELSE [last |-> TRUE, rawURL |-> rest.rawURL]
  /\ UNCHANGED <<restPc, successV, failureV, doerCalls, restReq, restResp, restResult>>
  /\ UNCHANGED builderVars
  /\ UNCHANGED callVars
  /\ UNCHANGED probe

\* s.Base(baseURL); url.Parse failing makes Base panic
RestBase(baseURL) ==
  IF Parse(baseURL).ok THEN PathSetter(Base(rest, baseURL), baseURL)
  ELSE /\ restPc = "build"
       /\ MayCallURLSetter
       /\ restPc' = "panicked"
       /\ UNCHANGED <<rest, ops, pathErr, successV, failureV, doerCalls, restReq, restResp,
                      restResult>>
       /\ UNCHANGED builderVars
       /\ UNCHANGED callVars
       /\ UNCHANGED probe

RestPath(path) == PathSetter(Path(rest, path), path)
RestMethodSetter(method, pathURL) == PathSetter(MethodSetter(rest, method, pathURL), pathURL)
RestQueryStruct(queryStruct) == Setter(QueryStruct(rest, queryStruct))
RestBodyProvider(p) == Setter(BodyProvider(rest, p))
RestBodyMultipartProvider(p) == Setter(BodyMultipartProvider(rest, p))

\* what s.httpClient.Do may return to Rest.Do
RestOutcomes ==
  {RestOutcome(TRUE, st, RespBody(doc, FALSE), Nil) : st \in RestStatuses, doc \in Docs}
  \cup {RestOutcome(TRUE, st, RespBody("value", TRUE), Nil) : st \in RestStatuses}
  \cup {RestOutcome(FALSE, 0, RespBody("empty", FALSE), TransportErr(TRUE, "other")),
        RestOutcome(TRUE, 302, Close(RespBody("empty", FALSE)), TransportErr(TRUE, "redirects"))}

\* s.Do(req, successV, failureV) with a request made elsewhere and targets
\* that hold their zero value; o is what s.httpClient.Do returns.  Do reads
\* none of the fields the setters write: it is called on the builder as New
\* made it.
RestDoCall(o, sv, fv) ==
  LET d == RestDo(rest, o, sv, fv)
  IN /\ restPc = "build"
     /\ ops = 0
     /\ restPc' = "returned"
     /\ doerCalls' = doerCalls + 1
     /\ restResp' = [o EXCEPT !.body = d.body]
     /\ successV' = d.successV
     /\ failureV' = d.failureV
     /\ restResult' = Returned(d.resp, d.err)
     /\ UNCHANGED <<rest, ops, pathErr, restReq>>
     /\ UNCHANGED builderVars
     /\ UNCHANGED callVars
     /\ UNCHANGED probe

\* the calls of Receive tried on every builder
ReceiveOutcomes ==
  {RestOutcome(TRUE, 200, RespBody("value", FALSE), Nil),
   RestOutcome(TRUE, 404, RespBody("mismatch", FALSE), Nil),
   RestOutcome(TRUE, 204, RespBody("empty", FALSE), Nil),
   RestOutcome(FALSE, 0, RespBody("empty", FALSE), TransportErr(TRUE, "other"))}
ReceiveTargets == {<<Target("nil"), Target("nil")>>, <<Target("struct"), Target("Raw")>>}

\* s.Receive(successV, failureV), with targets that hold their zero value;
\* o is what s.httpClient.Do returns if it is called
RestReceive(o, sv, fv) ==
  LET r == Receive(rest, o, sv, fv)
  IN /\ restPc = "build"
     /\ restPc' = "returned"
     /\ rest' = r.rest
     /\ restReq' = [req |-> r.req.req, err |-> r.req.err]
     /\ doerCalls' = IF r.called THEN doerCalls + 1 ELSE doerCalls
     /\ restResp' = IF r.called THEN [o EXCEPT !.body = r.body] ELSE NoRestOutcome
     /\ successV' = r.successV
     /\ failureV' = r.failureV
     /\ restResult' = Returned(r.resp, r.err)
     /\ UNCHANGED <<ops, pathErr>>
     /\ UNCHANGED builderVars
     /\ UNCHANGED callVars
     /\ UNCHANGED probe

NextRest ==
  \/ \E baseURL \in BaseStrings : RestBase(baseURL)
  \/ \E path \in PathStrings : RestPath(path)
  \/ \E method \in SetterMethods, pathURL \in PathStrings : RestMethodSetter(method, pathURL)
  \/ \E queryStruct \in QueryStructs : RestQueryStruct(queryStruct)
  \/ \E p \in BodyProviders : RestBodyProvider(p)
  \/ \E p \in MultipartProviders : RestBodyMultipartProvider(p)
  \/ \E o \in RestOutcomes, sv \in Targets, fv \in Targets : RestDoCall(o, sv, fv)
  \/ \E o \in ReceiveOutcomes, t \in ReceiveTargets : RestReceive(o, t[1], t[2])

SpecRest == InitRest /\ [][NextRest]_vars

\* ------------------------------------------------------------------ Rest: Clone
\* the number of setter calls made on the builder and on its clone
MaxCalls == 5
MaxCloneCalls == 1

\* the header keys and values, and the base URL, given in the calls
CloneKeys == {"A", "a"}
HeaderValues == {"1", "2"}
CloneBase == <<"https://a.io", "/">>

InitClone ==
  /\ NoCallInProgress
  /\ probe = NoProbe
  /\ \E c \in HttpClients : rest = WithHttpClient(New("jsonDecoder", "DecodeOnSuccess"), c)
  /\ restPc = "build"
  /\ ops = 0
  /\ pathErr = NoPathErr
  /\ successV = Target("nil")
  /\ failureV = Target("nil")
  /\ doerCalls = 0
  /\ restReq = NoRestReq
  /\ restResp = NoRestOutcome
  /\ restResult = NoResult
  /\ NoBuilderCalls

\* the builder a call is made on ("b": the original, "c": its clone), and
\* the other one
Builder(who) == IF who = "b" THEN rest ELSE clone.c
Other(who) == IF who = "b" THEN clone.c ELSE rest

\* A setter call on one of the two builders: mine is the builder the call
\* leaves, others what the other builder is after it, al the keys whose
\* slices still share an array
CallOn(who, mine, others, al) ==
  /\ restPc = "build"
  /\ who = "c" => clone.made
  /\ IF who = "b"
       THEN /\ ops < MaxCalls
            /\ ops' = ops + 1
            /\ rest' = mine
            /\ clone' = [clone EXCEPT !.c = others]
            /\ UNCHANGED cloneOps
       ELSE /\ cloneOps < MaxCloneCalls
            /\ cloneOps' = cloneOps + 1
            /\ clone' = [clone EXCEPT !.c = mine]
            /\ rest' = others
            /\ UNCHANGED ops
  /\ aliased' = al
  /\ UNCHANGED <<restPc, pathErr, successV, failureV, doerCalls, restReq, restResp, restResult,
                 atClone, want, lastBody, heap, built>>
  /\ UNCHANGED parserVars
  /\ UNCHANGED callVars
  /\ UNCHANGED probe

\* s.AddHeader(key, value): an append within the capacity of a shared array
\* is a store the other builder's slice may show; an append that allocates,
\* like a Set, ends the sharing under the key
CloneAddHeader(who, key, value) ==
  LET s == Builder(who)
      o == Other(who)
      k == CanonicalMIMEHeaderKey(key)
      inPlace == AppendsInPlace(s.header, key)
  IN CallOn(who, AddHeader(s, key, value),
            IF inPlace /\ k \in aliased
              THEN [o EXCEPT !.header = StoreThrough(s.header, o.header, key, value)]
              ELSE o,
            IF inPlace THEN aliased ELSE aliased \ {k})

\* s.SetHeader(key, value)
CloneSetHeader(who, key, value) ==
  CallOn(who, SetHeader(Builder(who), key, value), Other(who),
         aliased \ {CanonicalMIMEHeaderKey(key)})

\* s.QueryStruct(queryStruct)
CloneQueryStruct(who, queryStruct) ==
  CallOn(who, QueryStruct(Builder(who), queryStruct), Other(who), aliased)

\* s.Base(baseURL) and s.BodyJSON(bodyJSON) on the original
CloneBaseCall == CallOn("b", Base(rest, CloneBase), clone.c, aliased)
CloneBodyJSON(bodyJSON) ==
  CallOn("b", BodyJSON(rest, bodyJSON), clone.c,
         IF bodyJSON = "nil" THEN aliased ELSE aliased \ {hdrContentTypeKey})

\* c = s.Clone(), once: the slices of the two headers share their arrays
RestClone ==
  /\ restPc = "build"
  /\ ~clone.made
  /\ IF ClonePanics(rest)
       THEN /\ restPc' = "panicked"
            /\ UNCHANGED <<clone, aliased, atClone>>
       ELSE /\ clone' = [made |-> TRUE, c |-> Clone(rest)]
            /\ aliased' = DOMAIN rest.header
            /\ atClone' = rest
            /\ UNCHANGED restPc
  /\ UNCHANGED <<rest, ops, cloneOps, pathErr, successV, failureV, doerCalls, restReq, restResp,
                 restResult, want, lastBody, heap, built>>
  /\ UNCHANGED parserVars
  /\ UNCHANGED callVars
  /\ UNCHANGED probe

NextClone ==
  \/ \E who \in {"b", "c"}, key \in CloneKeys, value \in HeaderValues :
       CloneAddHeader(who, key, value)
  \/ \E who \in {"b", "c"}, key \in CloneKeys, value \in HeaderValues :
       CloneSetHeader(who, key, value)
  \/ \E who \in {"b", "c"} : CloneQueryStruct(who, "struct")
  \/ CloneBaseCall
  \/ \E bodyJSON \in {"nil", "ok"} : CloneBodyJSON(bodyJSON)
  \/ RestClone

SpecClone == InitClone /\ [][NextClone]_vars

\* ------------------------------------------------------------------ Rest: headers and body
\* the number of header and body setter calls made on the builder
MaxBodyCalls == 3

\* the body setters and the arguments they are called with
BodySetters ==
  {"Body", "BodyJSON", "BodyForm", "BodyUrlEncode", "BodyXML", "BodyProvider", "BodyMultipart",
   "BodyMultipartProvider"}
BodyArgs(setter) ==
  IF setter \in {"Body", "BodyUrlEncode"} THEN Readers \X {"nil"}
  ELSE IF setter = "BodyMultipart" THEN Payloads \X {"nil", "ok"}
  ELSE Payloads \X {"nil"}

\* the provider a caller hands to BodyProvider or BodyMultipartProvider
GivenProvider(kind, payload) == IF payload = "nil" THEN NoProvider ELSE ProviderOf(kind, payload)

\* the call setter(a) on s (setter(a, b) for BodyMultipart)
ApplyBodySetter(s, setter, a, b) ==
  CASE setter = "Body" -> SetBody(s, a)
    [] setter = "BodyJSON" -> BodyJSON(s, a)
    [] setter = "BodyForm" -> BodyForm(s, a)
    [] setter = "BodyUrlEncode" -> BodyUrlEncode(s, a)
    [] setter = "BodyXML" -> BodyXML(s, a)
    [] setter = "BodyProvider" -> BodyProvider(s, GivenProvider("json", a))
    [] setter = "BodyMultipart" -> BodyMultipart(s, a, b)
    [] setter = "BodyMultipartProvider" -> BodyMultipartProvider(s, GivenProvider("multipart", a))

\* The record of a body setter call: whether its argument was nil, the slot
\* it is to fill and the provider it stands for
NilArgument(setter, a, b) == a = "nil" /\ b = "nil"
SlotOf(setter) ==
  IF setter \in {"BodyMultipart", "BodyMultipartProvider"} THEN "multipart" ELSE "single"
ProviderFor(setter, a, b) ==
  CASE setter = "Body" -> ProviderOf("body", a)
    [] setter = "BodyJSON" -> ProviderOf("json", a)
    [] setter = "BodyForm" -> ProviderOf("form", a)
    [] setter = "BodyUrlEncode" -> ProviderOf("urlencoded", a)
    [] setter = "BodyXML" -> ProviderOf("xml", a)
    [] setter = "BodyProvider" -> ProviderOf("json", a)
    [] OTHER -> Provider("multipart", a # "bad" /\ b # "bad")

\* The record of the header calls: a SetHeader leaves its value alone under
\* the canonical key, an AddHeader puts its value after those on record
WantSet(w, key, value) ==
  LET k == CanonicalMIMEHeaderKey(key)
  IN [j \in DOMAIN w \cup {k} |-> IF j = k THEN <<value>> ELSE w[j]]
WantAdd(w, key, value) ==
  LET k == CanonicalMIMEHeaderKey(key)
  IN [j \in DOMAIN w \cup {k} |->
        IF j = k THEN Append(IF k \in DOMAIN w THEN w[k] ELSE <<>>, value) ELSE w[j]]

InitBody ==
  /\ NoCallInProgress
  /\ probe = NoProbe
  /\ rest = New("jsonDecoder", "DecodeOnSuccess")
  /\ restPc = "build"
  /\ ops = 0
  /\ pathErr = NoPathErr
  /\ successV = Target("nil")
  /\ failureV = Target("nil")
  /\ doerCalls = 0
  /\ restReq = NoRestReq
  /\ restResp = NoRestOutcome
  /\ restResult = NoResult
  /\ NoBuilderCalls

\* a header or body setter call on the builder: s is the builder it leaves,
\* w and lb the record of the calls after it
BodyCall(s, w, lb) ==
  /\ restPc = "build"
  /\ ops < MaxBodyCalls
  /\ ops' = ops + 1
  /\ rest' = s
  /\ want' = w
  /\ lastBody' = lb
  /\ UNCHANGED <<restPc, pathErr, successV, failureV, doerCalls, restReq, restResp, restResult,
                 clone, cloneOps, aliased, atClone, heap, built>>
  /\ UNCHANGED parserVars
  /\ UNCHANGED callVars
  /\ UNCHANGED probe

\* s.AddHeader(key, value) and s.SetHeader(key, value)
RestAddHeader(key, value) ==
  BodyCall(AddHeader(rest, key, value), WantAdd(want, key, value), lastBody)
RestSetHeader(key, value) ==
  BodyCall(SetHeader(rest, key, value), WantSet(want, key, value), lastBody)

\* A body setter call; a setter of the single body calls SetHeader with the
\* content type of its provider unless that is empty
RestBodySetter(setter, a, b) ==
  LET p == ProviderFor(setter, a, b)
      setsType == ~NilArgument(setter, a, b) /\ SlotOf(setter) = "single" /\ ContentType(p) # ""
  IN BodyCall(ApplyBodySetter(rest, setter, a, b),
              IF setsType THEN WantSet(want, hdrContentTypeKey, ContentType(p)) ELSE want,
              IF NilArgument(setter, a, b)
                THEN [lastBody EXCEPT !.lastNil = TRUE]
                ELSE [slot |-> SlotOf(setter), provider |-> p, lastNil |-> FALSE])

\* s.Request(): with a multipart provider whose body can be encoded it
\* calls s.SetHeader with the content type of the provider
RestRequest ==
  LET r == Request(rest)
      setsType == r.err = Nil /\ rest.multipartBodyProvider.kind # "nil"
  IN /\ restPc = "build"
     /\ restPc' = "built"
     /\ rest' = r.rest
     /\ restReq' = [req |-> r.req, err |-> r.err]
     /\ want' = IF setsType
                  THEN WantSet(want, hdrContentTypeKey, ContentType(rest.multipartBodyProvider))
                  ELSE want
     /\ UNCHANGED <<ops, pathErr, successV, failureV, doerCalls, restResp, restResult, clone,
                    cloneOps, aliased, atClone, lastBody, heap, built>>
     /\ UNCHANGED parserVars
     /\ UNCHANGED callVars
     /\ UNCHANGED probe

NextBody ==
  \/ \E key \in HeaderKeys, value \in HeaderValues : RestAddHeader(key, value)
  \/ \E key \in HeaderKeys, value \in HeaderValues : RestSetHeader(key, value)
  \/ \E setter \in BodySetters : \E arg \in BodyArgs(setter) : RestBodySetter(setter, arg[1], arg[2])
  \/ RestRequest

SpecBody == InitBody /\ [][NextBody]_vars

\* ------------------------------------------------------------------ DoCustom: concurrent calls
\* Two goroutines call DoCustom on the same *RetryDoer, each with a request
\* and a context of its own.  DoCustom reads the fields of c and writes only
\* its local variables, which calls[p] holds for the call of caller p.
soloVars == <<ctx, pc, i, attempt, resp, doErr, shouldRetry, checkErr, wait, bodies,
              invocations, result, handlerCall, ctxAtCheck, cancelledInWait, exit, errs,
              rawBody, body, Body, seen, verdicts, backoffCalls, waited>>

\* the largest RetryMax of an executor that concurrent calls go through
MaxConcRetryMax == 1

\* the executors the concurrent calls go through
ConcWait == <<1, Second>>
ConcDoers ==
  {[RetryMax |-> m, RetryWaitMin |-> ConcWait[1], RetryWaitMax |-> ConcWait[2],
    CheckRetry |-> p, Backoff |-> b, ErrorHandler |-> h] :
     m \in -1..MaxConcRetryMax, p \in Policies, b \in {"DefaultBackoff", "LinearJitterBackoff"},
     h \in {"nil", "passthrough"}}

\* what the inner executor returns to a concurrent call
ConcOutcomes ==
  {Outcome(TRUE, 200, FALSE, <<>>, Nil), Outcome(TRUE, 503, FALSE, <<>>, Nil),
   Outcome(FALSE, 0, FALSE, <<>>, TransportErr(TRUE, "other"))}

\* the response the n-th attempt of a call got from outcome o
RespOf(o, n) == IF o.hasResp THEN Response(n, o.status, o.has, o.ra) ELSE NilResp

\* attempt++ on the local variable of the call
NextAttemptShared(cs, p) == cs[1].attempt + cs[2].attempt + 1
NextAttempt(cs, p) == cs[p].attempt + 1

\* a call that has started and has not returned
Running(k) == k.pc \in {"start", "inflight", "backoff", "wait"}

InitConc ==
  /\ doer \in ConcDoers
  /\ NoSingleCall
  /\ calls = [p \in Callers |-> NewCall]
  /\ probe = NoProbe
  /\ NoRestCall

\* The head of an iteration of the call of p: attempt++ and the call of
\* c.HTTPClient.Do
ConcAttempt(p) ==
  /\ calls[p].pc = "start"
  /\ calls' = [calls EXCEPT ![p] = [@ EXCEPT !.attempt = NextAttempt(calls, p),
                                             !.pending = TRUE,
                                             !.pc = "inflight"]]
  /\ UNCHANGED <<doer, probe>>
  /\ UNCHANGED soloVars
  /\ UNCHANGED restVars

\* c.HTTPClient.Do returns o to the call of p; the rest of the iteration up
\* to the select, or to the return of DoCustom.  A panic of c.Backoff unwinds
\* the goroutine of p: when the caller recovers it, this call alone ends
\* without a result; when nothing recovers it, the process ends and with it
\* every call.
ConcExecutorReturns(p, o) ==
  LET k == calls[p]
      r == RespOf(o, k.attempt)
      rb == IF ~o.hasResp THEN "none" ELSE IF o.err # Nil THEN "closed" ELSE "open"
      bs == Append(k.bodies, rb)
      v == CheckRetry(doer.CheckRetry, k.ctx, r, o.err)
      t == Terminal(doer, r, o.err, v.err, v.retry, k.attempt, bs)
      got == [k EXCEPT !.resp = r, !.doErr = o.err, !.shouldRetry = v.retry,
                       !.checkErr = v.err, !.ctxAtCheck = k.ctx, !.outs = Append(k.outs, o),
                       !.pending = FALSE]
  IN /\ k.pc = "inflight"
     /\ \/ /\ ~v.retry \/ BudgetExhausted(doer, k.i)
           /\ calls' = [calls EXCEPT ![p] = [got EXCEPT !.result = t.result,
                                                        !.handlerCall = t.handlerCall,
                                                        !.bodies = t.bodies,
                                                        !.pc = "done",
                                                        !.exit = "loop"]]
        \/ /\ v.retry /\ ~BudgetExhausted(doer, k.i)
           /\ \E conv \in ConvModes, draw \in RandDraws, recovered \in BOOLEAN :
                LET drained == IF o.err = Nil THEN drainBody(bs, r) ELSE bs
                    b == Backoff(doer.Backoff, doer.RetryWaitMin, doer.RetryWaitMax, k.i, r,
                                 conv, draw)
                IN IF b.panic
                     THEN calls' = [q \in Callers |->
                                      IF q = p
                                        THEN [got EXCEPT !.bodies = drained, !.pc = "panicked"]
                                      ELSE IF ~recovered /\ Running(calls[q])
                                        THEN [calls[q] EXCEPT !.pc = "panicked"]
                                      ELSE calls[q]]
                     ELSE calls' = [calls EXCEPT ![p] = [got EXCEPT !.bodies = drained,
                                                                    !.wait = b.d,
                                                                    !.pc = "backoff"]]
     /\ UNCHANGED <<doer, probe>>
     /\ UNCHANGED soloVars
     /\ UNCHANGED restVars

\* The call of p reaches the select
ConcEnterSelect(p) ==
  LET k == calls[p]
  IN /\ k.pc = "backoff"
     /\ \/ /\ Select(k.ctx, FALSE) = {}
           /\ calls' = [calls EXCEPT ![p] = [k EXCEPT !.pc = "wait"]]
        \/ /\ "done" \in Select(k.ctx, k.wait <= 0)
           /\ calls' = [calls EXCEPT ![p] = [k EXCEPT !.result = Returned(NilResp, CtxErr(k.ctx)),
                                                      !.pc = "done",
                                                      !.exit = "select"]]
        \/ /\ Select(k.ctx, FALSE) # {}
           /\ "timer" \in Select(k.ctx, k.wait <= 0)
           /\ calls' = [calls EXCEPT ![p] = [k EXCEPT !.i = k.i + 1, !.pc = "start"]]
     /\ UNCHANGED <<doer, probe>>
     /\ UNCHANGED soloVars
     /\ UNCHANGED restVars

\* The timer of the call of p fires: i++ and the next iteration
ConcSelectTimer(p) ==
  LET k == calls[p]
  IN /\ k.pc = "wait"
     /\ "done" \notin Select(k.ctx, TRUE)
     /\ calls' = [calls EXCEPT ![p] = [k EXCEPT !.i = k.i + 1, !.pc = "start"]]
     /\ UNCHANGED <<doer, probe>>
     /\ UNCHANGED soloVars
     /\ UNCHANGED restVars

\* The context of the call of p is done while it waits
ConcSelectDone(p) ==
  LET k == calls[p]
  IN /\ k.pc = "wait"
     /\ "done" \in Select(k.ctx, FALSE)
     /\ calls' = [calls EXCEPT ![p] = [k EXCEPT !.result = Returned(NilResp, CtxErr(k.ctx)),
                                                !.pc = "done",
                                                !.exit = "select"]]
     /\ UNCHANGED <<doer, probe>>
     /\ UNCHANGED soloVars
     /\ UNCHANGED restVars

\* The caller p cancels the context of its own request
ConcCancelContext(p) ==
  /\ calls[p].ctx = "live"
  /\ Running(calls[p])
  /\ calls' = [calls EXCEPT ![p] = [@ EXCEPT !.ctx = "Canceled"]]
  /\ UNCHANGED <<doer, probe>>
  /\ UNCHANGED soloVars
  /\ UNCHANGED restVars

NextConc ==
  \/ \E p \in Callers : ConcAttempt(p)
  \/ \E p \in Callers, o \in ConcOutcomes : ConcExecutorReturns(p, o)
  \/ \E p \in Callers : ConcEnterSelect(p)
  \/ \E p \in Callers : ConcSelectTimer(p)
  \/ \E p \in Callers : ConcSelectDone(p)
  \/ \E p \in Callers : ConcCancelContext(p)

SpecConc == InitConc /\ [][NextConc]_vars

\* ------------------------------------------------------------------ Rest: building requests
\* the number of body setter calls made before the first Request() call, and
\* the number of Request() calls
MaxSetBody == 2
MaxBuilds == 2

\* The io.Readers of the caller.  A strings.Reader has no Close ("none");
\* ioutil.NopCloser's Close does nothing ("nop"); an os.File fails every
\* read after Close ("file").  Body(body) is given the reader "r", and
\* BodyMultipart the maps {"f": f} and {"g": g}.
Closers == {"none", "nop", "file"}
NewReader(data, closer) == [data |-> data, pos |-> 0, closer |-> closer, closed |-> FALSE]
NewHeap(closer) ==
  [n \in {"r", "f", "g"} |->
     NewReader(IF n = "r" THEN <<"x", "y">> ELSE IF n = "f" THEN <<"v">> ELSE <<"w">>, closer)]

\* io.Copy(fw, r): reads r to its end; fails on a closed file
ReadAll(rd) ==
  IF rd.closed /\ rd.closer = "file"
    THEN [err |-> ReadErr, bytes |-> <<>>, rd |-> rd]
    ELSE [err |-> Nil, bytes |-> Remaining(rd), rd |-> [rd EXCEPT !.pos = Len(rd.data)]]

\* defer x.Close() for a reader that is an io.Closer
CloseReader(rd) == IF rd.closer = "none" THEN rd ELSE [rd EXCEPT !.closed = TRUE]

\* the body given to http.NewRequestWithContext: nil, a buffer of its own,
\* or a reader of the caller
NoStream == [kind |-> "nil", bytes |-> <<>>, ref |-> ""]
Buffer(bytes) == [kind |-> "buffer", bytes |-> bytes, ref |-> ""]
ReaderRef(ref) == [kind |-> "reader", bytes |-> <<>>, ref |-> ref]

\* the bytes the json, form, url-encoded and xml providers encode the payload
\* of the caller to
Encode(kind) ==
  CASE kind = "json" -> <<"{", "payload", "}", "\n">>
    [] kind = "xml" -> <<"<", "payload", ">">>
    [] OTHER -> <<"payload", "=", "1">>

\* multipart.NewWriter draws a random boundary
Boundaries == {"b1", "b2"}

\* multipartDataBodyProvider.Body(): the fields, then the files, each copied
\* to its end into a part; a reader that is a Closer is closed when Body
\* returns, also when it returns an error
multipartBody(h, boundary) ==
  LET f == ReadAll(h["f"])
      g == ReadAll(h["g"])
      hf == [h EXCEPT !["f"] = CloseReader(f.rd)]
      hg == [hf EXCEPT !["g"] = CloseReader(g.rd)]
  IN IF f.err # Nil THEN [err |-> f.err, body |-> NoStream, heap |-> hf]
     ELSE IF g.err # Nil THEN [err |-> g.err, body |-> NoStream, heap |-> hg]
     ELSE [err |-> Nil,
           body |-> Buffer(<<boundary, "f">> \o f.bytes \o <<boundary, "g">> \o g.bytes
                           \o <<boundary, "--">>),
           heap |-> hg]

\* p.Body() of the provider p: bodyProvider hands out the reader it wraps,
\* the encoding providers a new buffer
ProviderBody(p, h, boundary) ==
  CASE p.kind = "nil" -> [err |-> Nil, body |-> NoStream, heap |-> h]
    [] p.kind = "body" -> [err |-> Nil, body |-> ReaderRef("r"), heap |-> h]
    [] p.kind = "multipart" /\ p.ok -> multipartBody(h, boundary)
    [] OTHER -> IF p.ok THEN [err |-> Nil, body |-> Buffer(Encode(p.kind)), heap |-> h]
                ELSE [err |-> BodyEncodeErr, body |-> NoStream, heap |-> h]

\* s.Request() with the body of the request: the request, the error, the
\* builder and the readers after the call
Build(s, h, boundary) ==
  LET r == Request(s)
      provider == IF s.multipartBodyProvider.kind # "nil" THEN s.multipartBodyProvider
                  ELSE s.bodyProvider
      m == ProviderBody(provider, h, boundary)
  IN IF r.err # Nil /\ r.err # BodyEncodeErr
       THEN [req |-> r.req, err |-> r.err, rest |-> s, body |-> NoStream, heap |-> h]
     ELSE IF m.err # Nil
       THEN [req |-> NilRequest, err |-> m.err, rest |-> s, body |-> NoStream, heap |-> m.heap]
     ELSE [req |-> r.req, err |-> Nil, rest |-> r.rest, body |-> m.body, heap |-> m.heap]

\* the bytes a read of the body to its end yields, and the readers after
\* it: the http.Client closes a body that is an io.Closer
Drain(stream, h) ==
  IF stream.kind = "reader"
    THEN LET a == ReadAll(h[stream.ref])
         IN [bytes |-> a.bytes, heap |-> [h EXCEPT ![stream.ref] = CloseReader(a.rd)]]
    ELSE [bytes |-> stream.bytes, heap |-> h]

\* the body setters called with an argument that is not nil
BuildSetters == {"Body", "BodyJSON", "BodyForm", "BodyUrlEncode", "BodyXML", "BodyMultipart"}

InitBuild ==
  /\ NoCallInProgress
  /\ probe = NoProbe
  /\ rest \in {New("jsonDecoder", "DecodeOnSuccess"),
               Base(New("jsonDecoder", "DecodeOnSuccess"), CloneBase)}
  /\ restPc = "build"
  /\ ops = 0
  /\ pathErr = NoPathErr
  /\ successV = Target("nil")
  /\ failureV = Target("nil")
  /\ doerCalls = 0
  /\ restReq = NoRestReq
  /\ restResp = NoRestOutcome
  /\ restResult = NoResult
  /\ clone = NoClone
  /\ cloneOps = 0
  /\ aliased = {}
  /\ atClone = New("jsonDecoder", "DecodeOnSuccess")
  /\ want = <<>>
  /\ lastBody = NoLastBody
  /\ \E closer \in Closers : heap = NewHeap(closer)
  /\ built = <<>>
  /\ invoker = NoInvoker
  /\ repo = NewRepo
  /\ gor = NoGoroutine
  /\ rpcs = <<>>

\* a body setter call on the builder, before the first Request() call
BuildSetBody(setter) ==
  /\ restPc = "build"
  /\ ~clone.made
  /\ built = <<>>
  /\ ops < MaxSetBody
  /\ ops' = ops + 1
  /\ rest' = ApplyBodySetter(rest, setter, "ok", "ok")
  /\ lastBody' = [slot |-> SlotOf(setter), provider |-> ProviderFor(setter, "ok", "ok"),
                  lastNil |-> FALSE]
  /\ UNCHANGED <<restPc, pathErr, successV, failureV, doerCalls, restReq, restResp, restResult,
                 clone, cloneOps, aliased, atClone, want, heap, built>>
  /\ UNCHANGED parserVars
  /\ UNCHANGED callVars
  /\ UNCHANGED probe

\* who.Request(), on the builder ("b") or on its clone ("c")
BuildRequest(who, boundary) ==
  LET r == Build(Builder(who), heap, boundary)
  IN /\ restPc = "build"
     /\ who = "c" => clone.made
     /\ Len(built) < MaxBuilds
     /\ built' = Append(built, [who |-> who, req |-> r.req, err |-> r.err, body |-> r.body,
                                sent |-> FALSE, bytes |-> <<>>])
     /\ heap' = r.heap
     /\ rest' = IF who = "b" THEN r.rest ELSE rest
     /\ clone' = IF who = "c" THEN [clone EXCEPT !.c = r.rest] ELSE clone
     /\ aliased' = IF r.rest = Builder(who) THEN aliased ELSE aliased \ {hdrContentTypeKey}
     /\ restReq' = [req |-> r.req, err |-> r.err]
     /\ UNCHANGED <<restPc, ops, pathErr, successV, failureV, doerCalls, restResp, restResult,
                    cloneOps, atClone, want, lastBody>>
     /\ UNCHANGED parserVars
     /\ UNCHANGED callVars
     /\ UNCHANGED probe

\* the request built by the k-th Request() call is sent: its body is read to
\* its end
BuildSend(k) ==
  LET d == Drain(built[k].body, heap)
  IN /\ k \in DOMAIN built
     /\ built[k].err = Nil
     /\ ~built[k].sent
     /\ built' = [built EXCEPT ![k] = [@ EXCEPT !.sent = TRUE, !.bytes = d.bytes]]
     /\ heap' = d.heap
     /\ UNCHANGED <<rest, restPc, ops, pathErr, successV, failureV, doerCalls, restReq, restResp,
                    restResult, clone, cloneOps, aliased, atClone, want, lastBody>>
     /\ UNCHANGED parserVars
     /\ UNCHANGED callVars
     /\ UNCHANGED probe

NextBuild ==
  \/ \E setter \in BuildSetters : BuildSetBody(setter)
  \/ RestClone
  \/ \E who \in {"b", "c"}, boundary \in Boundaries : BuildRequest(who, boundary)
  \/ \E k \in 1..MaxBuilds : BuildSend(k)

SpecBuild == InitBuild /\ [][NextBuild]_vars

\* ------------------------------------------------------------------ parser: Subscribe
\* the largest transaction count the endpoint reports, and the number of
\* polls the goroutine makes
MaxCount == 2
MaxPolls == 3

\* Strings of digits are sequences of characters.  The value of a digit in
\* a base, -1 when it is no digit of that base
BaseDigit(c, base) ==
  LET v == CASE c = "0" -> 0 [] c = "1" -> 1 [] c = "2" -> 2 [] c = "3" -> 3 [] c = "4" -> 4
             [] c = "5" -> 5 [] c = "6" -> 6 [] c = "7" -> 7 [] c = "8" -> 8 [] c = "9" -> 9
             [] c = "a" -> 10 [] c = "b" -> 11 [] c = "c" -> 12 [] c = "d" -> 13
             [] c = "e" -> 14 [] c = "f" -> 15 [] OTHER -> -1
  IN IF v < base THEN v ELSE -1

\* the value of the digits s in a base, -1 when one of them is no digit
RECURSIVE BaseValue(_, _, _)
BaseValue(s, base, acc) ==
  IF s = <<>> THEN acc
  ELSE IF BaseDigit(Head(s), base) < 0 THEN -1
  ELSE BaseValue(Tail(s), base, acc * base + BaseDigit(Head(s), base))

\* strconv.ParseInt(s, 0, 64): the base is that of the prefix ("0x": 16, a
\* leading "0": 8, else 10); no digits, or a character that is no digit of
\* the base, is an error
ParseIntBase0(s) ==
  LET hex == Len(s) >= 2 /\ s[1] = "0" /\ s[2] = "x"
      oct == ~hex /\ Len(s) >= 2 /\ s[1] = "0"
      digits == IF hex THEN Tail(Tail(s)) ELSE IF oct THEN Tail(s) ELSE s
      v == BaseValue(digits, IF hex THEN 16 ELSE IF oct THEN 8 ELSE 10, 0)
  IN IF digits = <<>> \/ v < 0 THEN [ok |-> FALSE, v |-> 0] ELSE [ok |-> TRUE, v |-> v]

\* utils.ConvertHexToDec(hexString): 0 for a string ParseInt rejects
ConvertHexToDec(hexString) ==
  LET p == ParseIntBase0(hexString) IN IF p.ok THEN p.v ELSE 0

\* fmt.Sprintf("%#x", idx)
RECURSIVE HexDigits(_)
HexDigits(n) ==
  LET d == <<"0", "1", "2", "3", "4", "5", "6", "7", "8", "9", "a", "b", "c", "d", "e", "f">>
  IN IF n < 16 THEN <<d[n + 1]>> ELSE Append(HexDigits(n \div 16), d[(n % 16) + 1])
SprintfHex(idx) == <<"0", "x">> \o HexDigits(idx)

\* What CountBlockTransaction returns: "" when the call failed, else the
\* result of the endpoint: a count in hex, in decimal, or no number
CountResults ==
  {<<>>, <<"0", "x">>} \cup {SprintfHex(n) : n \in 0..MaxCount} \cup {HexDigits(MaxCount)}

\* the one address Subscribe is called for, and the hash of the transaction
\* the endpoint has at an index
Address == "0x12ebe0a"
Hash(hexIndex) == <<"h">> \o hexIndex

\* InMemory.GetBlockInfo, UpsertBlockInfo and CreateBlockTransactions
NilBlockInfo == [nil |-> TRUE, Count |-> 0, LatestTransactionAddress |-> <<>>]
BlockInfo(count, latest) == [nil |-> FALSE, Count |-> count, LatestTransactionAddress |-> latest]
GetBlockInfo(r, blockAddress) ==
  IF blockAddress \in DOMAIN r.mapBlockInfo THEN r.mapBlockInfo[blockAddress] ELSE NilBlockInfo
UpsertBlockInfo(r, blockAddress, blockInfo) ==
  [r EXCEPT !.mapBlockInfo = [a \in DOMAIN r.mapBlockInfo \cup {blockAddress} |->
                                IF a = blockAddress THEN blockInfo ELSE r.mapBlockInfo[a]]]
CreateBlockTransactions(r, blockTransactions) ==
  [r EXCEPT !.blockTransactions = r.blockTransactions \o blockTransactions]

\* the end of subscribe: both writes, of the records collected and of the
\* new count
Store(r, blockAddress, txs, count, latest) ==
  UpsertBlockInfo(CreateBlockTransactions(r, txs), blockAddress, BlockInfo(count, latest))

\* the cases of the select of the goroutine that are ready
ReadyIgnoresDone(c, tick) == IF tick THEN {"tick"} ELSE {}
Ready(c, tick) == (IF c # "live" THEN {"done"} ELSE {}) \cup (IF tick THEN {"tick"} ELSE {})

\* Subscribe(address) has started its goroutine: the ticker runs, with no
\* tick in its channel yet
NewGoroutine ==
  [pc |-> "select", ticking |-> TRUE, tick |-> FALSE, blockInfo |-> NilBlockInfo, count |-> 0,
   idx |-> 0, blockTransactions |-> <<>>, latest |-> <<>>, rpcCtx |-> "live", polls |-> 0,
   active |-> 0, err |-> "none", failed |-> FALSE, anyFailed |-> FALSE, shrank |-> FALSE]

InitSubscribe ==
  /\ NoCallInProgress
  /\ probe = NoProbe
  /\ rest = New("jsonDecoder", "DecodeOnSuccess")
  /\ restPc = "build"
  /\ ops = 0
  /\ pathErr = NoPathErr
  /\ successV = Target("nil")
  /\ failureV = Target("nil")
  /\ doerCalls = 0
  /\ restReq = NoRestReq
  /\ restResp = NoRestOutcome
  /\ restResult = NoResult
  /\ clone = NoClone
  /\ cloneOps = 0
  /\ aliased = {}
  /\ atClone = New("jsonDecoder", "DecodeOnSuccess")
  /\ want = <<>>
  /\ lastBody = NoLastBody
  /\ heap = <<>>
  /\ built = <<>>
  /\ invoker = NoInvoker
  /\ repo = NewRepo
  /\ gor = NewGoroutine
  /\ rpcs = <<>>

\* a step of the parser leaves the rest of the model alone
ParserStep ==
  /\ UNCHANGED <<rest, restPc, ops, pathErr, successV, failureV, doerCalls, restReq, restResp,
                 restResult, clone, cloneOps, aliased, atClone, want, lastBody, heap, built>>
  /\ UNCHANGED callVars
  /\ UNCHANGED probe

\* the running ticker puts a tick into its channel, which holds one
Tick ==
  /\ gor.pc \in {"select", "count", "tx", "returned"}
  /\ gor.ticking
  /\ ~gor.tick
  /\ gor' = [gor EXCEPT !.tick = TRUE]
  /\ UNCHANGED <<invoker, repo, rpcs>>
  /\ ParserStep

\* case <-ticker.C: ticker.Stop(), which leaves in the channel a tick sent
\* since the receive, then subscribe(address) up to its first RPC
SelectTick ==
  /\ gor.pc = "select"
  /\ "tick" \in Ready(invoker.ctx, gor.tick)
  /\ gor.polls < MaxPolls
  /\ \E stale \in BOOLEAN :
       gor' = [gor EXCEPT !.pc = "count", !.ticking = FALSE, !.tick = stale,
                          !.blockInfo = GetBlockInfo(repo, Address), !.rpcCtx = invoker.ctx,
                          !.polls = @ + 1, !.active = @ + 1, !.failed = FALSE, !.err = "none"]
  /\ UNCHANGED <<invoker, repo, rpcs>>
  /\ ParserStep

\* CountBlockTransaction returns hexCount: the rest of subscribe up to the
\* next RPC or to its return.  A call made with a context that is done fails.
CountReturns(hexCount) ==
  LET count == ConvertHexToDec(hexCount)
      info == gor.blockInfo
      nexIndex == IF info.nil THEN 0 ELSE info.Count
      back == [gor EXCEPT !.pc = "returned", !.active = @ - 1, !.count = count,
                          !.shrank = @ \/ count < nexIndex]
  IN /\ gor.pc = "count"
     /\ gor.rpcCtx # "live" => hexCount = <<>>
     /\ IF hexCount = <<>>
          THEN /\ gor' = [back EXCEPT !.err = "error", !.failed = TRUE, !.anyFailed = TRUE,
                                      !.count = gor.count]
               /\ UNCHANGED repo
        ELSE IF ~info.nil /\ info.Count = count
          THEN /\ gor' = [back EXCEPT !.err = "nil"]
               /\ UNCHANGED repo
        ELSE IF nexIndex < count
          THEN /\ gor' = [gor EXCEPT !.pc = "tx", !.count = count, !.idx = nexIndex,
                                     !.blockTransactions = <<>>, !.latest = <<>>,
                                     !.rpcCtx = invoker.ctx]
               /\ UNCHANGED repo
        ELSE /\ gor' = [back EXCEPT !.err = "nil", !.blockTransactions = <<>>, !.latest = <<>>]
             /\ repo' = Store(repo, Address, <<>>, count, <<>>)
     /\ UNCHANGED <<invoker, rpcs>>
     /\ ParserStep

\* GetTransactionByIndex returns: nil when the call failed, and trans.Hash
\* dereferences it; else the record is collected, and after the last index
\* subscribe stores what it collected and returns
TxReturns(ok) ==
  LET hash == Hash(SprintfHex(gor.idx))
      txs == Append(gor.blockTransactions, hash)
      more == [gor EXCEPT !.idx = @ + 1, !.blockTransactions = txs, !.latest = hash,
                          !.rpcCtx = invoker.ctx]
  IN /\ gor.pc = "tx"
     /\ gor.rpcCtx # "live" => ~ok
     /\ IF ~ok
          THEN /\ gor' = [gor EXCEPT !.pc = "panicked", !.failed = TRUE, !.anyFailed = TRUE]
               /\ UNCHANGED repo
        ELSE IF gor.idx + 1 < gor.count
          THEN /\ gor' = more
               /\ UNCHANGED repo
        ELSE /\ gor' = [more EXCEPT !.pc = "returned", !.active = @ - 1, !.err = "nil"]
             /\ repo' = Store(repo, Address, txs, gor.count, hash)
     /\ UNCHANGED <<invoker, rpcs>>
     /\ ParserStep

\* subscribe has returned: ticker.Reset(s.interval), and the next select
TickerReset ==
  /\ gor.pc = "returned"
  /\ gor' = [gor EXCEPT !.pc = "select", !.ticking = TRUE]
  /\ UNCHANGED <<invoker, repo, rpcs>>
  /\ ParserStep

\* case <-s.ctx.Done(): return, and the deferred ticker.Stop()
SubscribeDone ==
  /\ gor.pc = "select"
  /\ "done" \in Ready(invoker.ctx, gor.tick)
  /\ gor' = [gor EXCEPT !.pc = "exited", !.ticking = FALSE]
  /\ UNCHANGED <<invoker, repo, rpcs>>
  /\ ParserStep

\* the context given to parser.New is cancelled
CancelInvoker ==
  /\ invoker.ctx = "live"
  /\ gor.pc \in {"select", "count", "tx", "returned"}
  /\ invoker' = [invoker EXCEPT !.ctx = "Canceled"]
  /\ UNCHANGED <<repo, gor, rpcs>>
  /\ ParserStep

NextSubscribe ==
  \/ Tick
  \/ SelectTick
  \/ \E hexCount \in CountResults : CountReturns(hexCount)
  \/ \E ok \in BOOLEAN : TxReturns(ok)
  \/ TickerReset
  \/ SubscribeDone
  \/ CancelInvoker

SpecSubscribe == InitSubscribe /\ [][NextSubscribe]_vars

\* The goroutine runs when it can; the select picks among its ready cases
\* at random, so a case that is ready again and again is taken; every RPC
\* returns.
SpecSubscribeFair ==
  /\ SpecSubscribe
  /\ WF_vars(SelectTick)
  /\ SF_vars(SubscribeDone)
  /\ WF_vars(\E hexCount \in CountResults : CountReturns(hexCount))
  /\ WF_vars(\E ok \in BOOLEAN : TxReturns(ok))
  /\ WF_vars(TickerReset)

\* ------------------------------------------------------------------ parser: the calls of an Invoker
\* the number of JSON-RPC calls each goroutine makes
MaxRpcs == 2

\* The goroutines that call through one Invoker: the caller of GetBlock and
\* GetCurrentBlock, and the goroutine of Subscribe, and the methods each asks for
RpcCallers == {"main", "poll"}
RpcMethods(p) ==
  IF p = "main" THEN {"eth_blockNumber", "eth_getBlockByHash"}
  ELSE {"eth_getBlockTransactionCountByHash", "eth_getTransactionByBlockHashAndIndex"}

\* the request map a call builds: its id is unlike that of any other call
RpcRequest(p, method, n) == [method |-> method, id |-> <<p, n>>]
NoRpcRequest == [method |-> "", id |-> <<>>]
\* what the endpoint answers to the body it is sent
RpcResponse(request) == [id |-> request.id, result |-> request.method]

\* jsonBodyProvider{payload: &request}: Body() encodes the map
jsonBodyProvider(payload) == [kind |-> "json", ok |-> TRUE, payload |-> payload]

NewRpc == [pc |-> "idle", request |-> NoRpcRequest, sent |-> NoRpcRequest,
           out |-> RpcResponse(NoRpcRequest), err |-> Nil, n |-> 0]

\* parser.New(ctx, host, repo): cli := rest.New().Base(host)
InitInvoker ==
  /\ NoCallInProgress
  /\ probe = NoProbe
  /\ rest = Base(New("jsonDecoder", "DecodeOnSuccess"), CloneBase)
  /\ restPc = "build"
  /\ ops = 0
  /\ pathErr = NoPathErr
  /\ successV = Target("nil")
  /\ failureV = Target("nil")
  /\ doerCalls = 0
  /\ restReq = NoRestReq
  /\ restResp = NoRestOutcome
  /\ restResult = NoResult
  /\ clone = NoClone
  /\ cloneOps = 0
  /\ aliased = {}
  /\ atClone = New("jsonDecoder", "DecodeOnSuccess")
  /\ want = <<>>
  /\ lastBody = NoLastBody
  /\ heap = <<>>
  /\ built = <<>>
  /\ invoker = NoInvoker
  /\ repo = NewRepo
  /\ gor = NoGoroutine
  /\ rpcs = [p \in RpcCallers |-> NewRpc]

\* a step of a call leaves all but s.cli and the calls alone
RpcStep ==
  /\ UNCHANGED <<restPc, ops, pathErr, successV, failureV, doerCalls, restReq, restResp,
                 restResult, clone, cloneOps, aliased, atClone, want, lastBody, heap, built>>
  /\ UNCHANGED <<repo, gor>>
  /\ UNCHANGED callVars
  /\ UNCHANGED probe

\* goroutine p enters a call: the request map, and on the one builder of
\* the Invoker s.cli.SetContext(s.ctx).Post("").SetHeader("Content-Type",
\* "application/json")
RpcSetters(p, method) ==
  /\ rpcs[p].pc = "idle"
  /\ rpcs[p].n < MaxRpcs
  /\ rpcs' = [rpcs EXCEPT ![p] = [@ EXCEPT !.pc = "setters",
                                           !.request = RpcRequest(p, method, rpcs[p].n + 1),
                                           !.sent = NoRpcRequest,
                                           !.out = RpcResponse(NoRpcRequest), !.err = Nil]]
  /\ invoker' = [invoker EXCEPT !.cliCtx = invoker.ctx]
  /\ rest' = SetHeader(MethodSetter(rest, "POST", <<>>), hdrContentTypeKey, "application/json")
  /\ RpcStep

\* .BodyJSON(&request), which stores the provider in the builder
RpcBodyJSON(p) ==
  /\ rpcs[p].pc = "setters"
  /\ rpcs' = [rpcs EXCEPT ![p] = [@ EXCEPT !.pc = "body"]]
  /\ rest' = BodyProvider(rest, jsonBodyProvider(rpcs[p].request))
  /\ UNCHANGED invoker
  /\ RpcStep

\* .Receive(&out, &failureRaw): Request() encodes the payload of the
\* provider the builder holds now, the endpoint answers to what it is sent,
\* and the answer is decoded into out; then the call returns
RpcReceive(p) ==
  LET r == Receive(rest, RestOutcome(TRUE, 200, RespBody("value", FALSE), Nil),
                   Target("struct"), Target("Raw"))
      sent == rest.bodyProvider.payload
  IN /\ rpcs[p].pc = "body"
     /\ rpcs' = [rpcs EXCEPT ![p] = [@ EXCEPT !.pc = "idle", !.n = @ + 1, !.sent = sent,
                                              !.out = RpcResponse(sent), !.err = r.err]]
     /\ rest' = r.rest
     /\ UNCHANGED invoker
     /\ RpcStep

NextInvoker ==
  \/ \E p \in RpcCallers : \E method \in RpcMethods(p) : RpcSetters(p, method)
  \/ \E p \in RpcCallers : RpcBodyJSON(p)
  \/ \E p \in RpcCallers : RpcReceive(p)

SpecInvoker == InitInvoker /\ [][NextInvoker]_vars

\* ------------------------------------------------------------------ claims
Max0(x) == IF x < 0 THEN 0 ELSE x
\* the error an error wraps (%w), or the error itself
ErrCause(e) == IF e.kind = "givingUp" THEN e.cause ELSE e
\* the statuses both default policies hand back to the caller
TerminalStatus(s) == s # 429 /\ s # 0 /\ ~(s >= 500 /\ s # 501)

\* C1, as stated: for every configured RetryMax, one DoCustom call invokes
\* the inner executor at most RetryMax + 1 times, and the attempt count of
\* the final "giving up after N attempt(s)" error is the number of invocations.
C1_AsStated ==
  /\ invocations <= doer.RetryMax + 1
  /\ (result.set /\ result.err.kind = "givingUp") => result.err.attempts = invocations

\* C1, amended: one DoCustom call invokes the inner executor at most
\* max(RetryMax, 0) + 1 times (once when RetryMax is negative), and the
\* attempt count of the final "giving up after N attempt(s)" error is the
\* number of invocations that were made.
C1_AttemptBound ==
  /\ invocations <= Max0(doer.RetryMax) + 1
  /\ (result.set /\ result.err.kind = "givingUp") => result.err.attempts = invocations

\* C1 witness: a call with the largest budget gives up after RetryMax + 1 invocations
C1_Witness ==
  /\ pc = "done"
  /\ doer.RetryMax = MaxRetryMax
  /\ invocations = MaxRetryMax + 1
  /\ result.err.kind = "givingUp"
  /\ result.err.attempts = MaxRetryMax + 1

\* C2: when the attempts before the last were retried and the last attempt
\* returned a response with no transport error that the policy does not
\* retry and reports no error for (under a live context: any status other
\* than 429, 0 and 5xx-except-501), DoCustom returns exactly the response of
\* that last attempt with a nil error, its body unread and open.
C2_ReturnsLastResponse ==
  (/\ pc = "done"
   /\ exit = "loop"
   /\ doErr = Nil
   /\ \/ (checkErr = Nil /\ ~shouldRetry)
      \/ (ctxAtCheck = "live" /\ TerminalStatus(resp.status)))
  => /\ result = Returned(resp, Nil)
     /\ resp.id = invocations
     /\ bodies[resp.id] = "open"
     /\ \A k \in 1..(invocations - 1) : bodies[k] # "open"

\* C2 witness: two attempts answered 503, drained and retried, then a 200
C2_Witness ==
  /\ pc = "done"
  /\ invocations = 3
  /\ bodies = <<"closed", "closed", "open">>
  /\ resp.status = 200
  /\ result = Returned(resp, Nil)
  /\ doer.CheckRetry = "DefaultRetryPolicy"

\* the transport errors DefaultRetryPolicy does not retry: the *url.Error of
\* net/http for a redirect limit, an unsupported scheme, an unknown authority
NotRetriedErrs ==
  {TransportErr(TRUE, "redirects"), TransportErr(TRUE, "scheme"),
   TransportErr(TRUE, "unknownAuthority")}

\* C3: DefaultRetryPolicy answers "do not retry" for a canceled or expired
\* context and, under a live context, for a redirect-limit, unsupported-scheme
\* or unknown-authority error; it answers "retry" for every other transport
\* error and, without a transport error, for status 429 and every status in
\* 500..599 except 501.
C3_DefaultRetryPolicy ==
  (probe.fn = "policy" /\ probe.applied /\ probe.policy = "DefaultRetryPolicy") =>
    /\ probe.ctx # "live" => ~probe.out.retry
    /\ (probe.ctx = "live" /\ probe.err \in NotRetriedErrs) => ~probe.out.retry
    /\ (probe.ctx = "live" /\ probe.err # Nil /\ probe.err \notin NotRetriedErrs)
         => probe.out.retry
    /\ (probe.ctx = "live" /\ probe.err = Nil /\ probe.resp.status = 429) => probe.out.retry
    /\ (probe.ctx = "live" /\ probe.err = Nil /\ probe.resp.status \in 500..599
          /\ probe.resp.status # 501) => probe.out.retry

\* C3 witness: the policy applied under a cancelled context to a 503
C3_Witness ==
  /\ probe.fn = "policy"
  /\ probe.applied
  /\ probe.policy = "DefaultRetryPolicy"
  /\ probe.ctx = "Canceled"
  /\ probe.err = Nil
  /\ probe.resp.status = 503
  /\ ~probe.out.retry

\* C4, as stated: with no transport error and a live context,
\* DefaultRetryPolicy returns (false, nil) for every status that is neither
\* 429 nor in 500..599 other than 501.
C4_AsStated ==
  (/\ probe.fn = "policy" /\ probe.applied /\ probe.policy = "DefaultRetryPolicy"
   /\ probe.ctx = "live" /\ probe.err = Nil
   /\ probe.resp.status # 429
   /\ ~(probe.resp.status \in 500..599 /\ probe.resp.status # 501))
  => probe.out = Verdict(FALSE, Nil)

\* C4, amended: with no transport error and a live context,
\* DefaultRetryPolicy returns (false, nil) for every status that is not 429,
\* not 0 and not 500 or above other than 501; status 0 and the statuses
\* above 599 are retried like the 5xx statuses.
C4_TerminalStatuses ==
  (/\ probe.fn = "policy" /\ probe.applied /\ probe.policy = "DefaultRetryPolicy"
   /\ probe.ctx = "live" /\ probe.err = Nil)
  => IF TerminalStatus(probe.resp.status)
       THEN probe.out = Verdict(FALSE, Nil)
       ELSE probe.out = Verdict(TRUE, Nil)

\* C4 witness: status 501 is handed back, status 999 is not
C4_Witness ==
  /\ probe.fn = "policy" /\ probe.applied /\ probe.policy = "DefaultRetryPolicy"
  /\ probe.ctx = "live" /\ probe.err = Nil
  /\ probe.resp.status = 501
  /\ probe.out = Verdict(FALSE, Nil)

\* C5, as stated: when the context is canceled or expired at the time
\* CheckRetry is consulted, no further attempt is made and the call ends
\* with a non-nil error whose cause is the context's error.
C5_AsStated ==
  ctxAtCheck # "live" =>
    /\ pc = "done"
    /\ result.err # Nil
    /\ ErrCause(result.err) = CtxErr(ctxAtCheck)

\* C5, amended: when the context is canceled or expired at the time
\* CheckRetry is consulted, no further attempt is made; without an
\* ErrorHandler the call returns no response and a "giving up" error that
\* wraps the context's error, and with an ErrorHandler the handler is called
\* with the context's error and the call returns what the handler returns
\* (which may be a nil error).
C5_CancelledAtCheck ==
  ctxAtCheck # "live" =>
    /\ pc = "done"
    /\ exit = "loop"
    /\ invocations = attempt
    /\ IF doer.ErrorHandler = "nil"
         THEN result = Returned(NilResp, GivingUp(invocations, CtxErr(ctxAtCheck)))
         ELSE /\ handlerCall = Called(resp, CtxErr(ctxAtCheck), invocations)
              /\ result = ErrorHandler(doer.ErrorHandler, resp, CtxErr(ctxAtCheck), invocations)

\* C5 witness: the context expired while an attempt that got a 200 was in flight
C5_Witness ==
  /\ ctxAtCheck = "DeadlineExceeded"
  /\ pc = "done"
  /\ doer.ErrorHandler = "nil"
  /\ resp.status = 200
  /\ doErr = Nil
  /\ result.err = GivingUp(1, CtxErr("DeadlineExceeded"))

\* C6: once the context is cancelled while DoCustom is suspended in the
\* backoff wait (the timer has not fired), no further attempt starts and the
\* call returns no response and the context's error, unwrapped.
C6_CancelledInWait ==
  cancelledInWait =>
    /\ pc \in {"wait", "done"}
    /\ invocations = i + 1
    /\ pc = "done" => (exit = "select" /\ result = Returned(NilResp, CtxErr(ctx)))

\* C6 witness: a call cancelled in the wait after its second attempt has returned
C6_Witness ==
  /\ cancelledInWait
  /\ pc = "done"
  /\ invocations = 2
  /\ result = Returned(NilResp, CtxErr("Canceled"))

\* C7, as stated: after a 429 with a Retry-After header holding an integer
\* N, the wait before the next attempt is N seconds (as a Duration) whatever
\* backoff is configured.
C7_AsStated ==
  (pc \in {"backoff", "wait"} /\ RetryAfterApplies(resp)) =>
    wait = Wrap(Second * ParseInt(resp.retryAfter).n)

\* C7, amended: when the configured backoff is DefaultBackoff, after a 429
\* with a Retry-After header holding an integer N the wait before the next
\* attempt is time.Second * N in the arithmetic of time.Duration (N seconds
\* whenever N seconds fit a Duration), whatever RetryWaitMin and
\* RetryWaitMax are; the other backoffs do not read the header.
C7_RetryAfterDefaultBackoff ==
  (pc \in {"backoff", "wait"} /\ RetryAfterApplies(resp)
     /\ doer.Backoff = "DefaultBackoff") =>
    /\ wait = Wrap(Second * ParseInt(resp.retryAfter).n)
    /\ Second * ParseInt(resp.retryAfter).n \in Durations
         => wait = Second * ParseInt(resp.retryAfter).n

\* C7 witness: a 429 with Retry-After: 2 makes a call whose computed backoff
\* is 0 wait two seconds
C7_Witness ==
  /\ pc = "wait"
  /\ doer.Backoff = "DefaultBackoff"
  /\ doer.RetryWaitMin = 0
  /\ resp.status = 429
  /\ resp.retryAfter = <<"2">>
  /\ wait = 2 * Second

\* C8, as stated: for every min and max and every response without an
\* applicable Retry-After, DefaultBackoff does not decrease from attempt
\* number n to n + 1 and never returns more than max.
C8_AsStated ==
  (/\ probe.fn = "backoff" /\ probe.applied /\ probe.backoff = "DefaultBackoff"
   /\ ~RetryAfterApplies(probe.resp))
  => /\ probe.out.d <= probe.next.d
     /\ probe.out.d <= probe.max
     /\ probe.next.d <= probe.max

\* C8, amended: for every min and max and every response without an
\* applicable Retry-After, DefaultBackoff never returns more than max, also
\* when min * 2^n leaves the range of a Duration; for every min >= 0 it does
\* not decrease from attempt number n to n + 1 (for a negative min it
\* decreases, to min * 2^n).
C8_DefaultBackoffMonotone ==
  (/\ probe.fn = "backoff" /\ probe.applied /\ probe.backoff = "DefaultBackoff"
   /\ ~RetryAfterApplies(probe.resp))
  => /\ probe.out.d <= probe.max
     /\ probe.next.d <= probe.max
     /\ probe.min >= 0 => probe.out.d <= probe.next.d

\* C8 witness: min * 2^n is beyond the range of a Duration and max is returned
C8_Witness ==
  /\ probe.fn = "backoff" /\ probe.applied /\ probe.backoff = "DefaultBackoff"
  /\ probe.resp.nil
  /\ probe.min = 3
  /\ probe.min * Pow2(probe.n) > MaxDur
  /\ probe.max = MaxDur - 1
  /\ probe.out.d = probe.max
  /\ probe.next.d = probe.max

\* C9: for min < max and every attempt number n >= 0, LinearJitterBackoff
\* returns a duration d with min*(n+1) <= d <= max*(n+1) (Duration
\* arithmetic), and for max <= min it returns min*(n+1).
C9_LinearJitterRange ==
  (probe.fn = "backoff" /\ probe.applied /\ probe.backoff = "LinearJitterBackoff") =>
    /\ ~probe.out.panic
    /\ probe.max <= probe.min => probe.out.d = Wrap(probe.min * (probe.n + 1))
    /\ (probe.min < probe.max /\ probe.max * (probe.n + 1) \in Durations
          /\ probe.min * (probe.n + 1) \in Durations)
         => /\ probe.min * (probe.n + 1) <= probe.out.d
            /\ probe.out.d <= probe.max * (probe.n + 1)

\* C10, as stated: with an ErrorHandler configured, every call that does not
\* end with "the last attempt succeeded" returns the pair the handler
\* produced for (last response, effective error, number of attempts).
C10_AsStated ==
  (pc = "done" /\ doer.ErrorHandler # "nil" /\ ~Succeeded(doErr, checkErr, shouldRetry)) =>
    /\ handlerCall = Called(resp, EffectiveErr(doErr, checkErr), invocations)
    /\ result = ErrorHandler(doer.ErrorHandler, resp, EffectiveErr(doErr, checkErr), invocations)

\* C10, amended: with an ErrorHandler configured, every call that leaves the
\* retry loop (the policy does not retry, or the budget is exhausted)
\* without "the last attempt succeeded" returns the pair the handler produced
\* for (last response, effective error, number of attempts); a call that is
\* cancelled in the backoff wait returns (nil, the context's error) without
\* calling the handler.
C10_ErrorHandlerDecides ==
  (pc = "done" /\ doer.ErrorHandler # "nil") =>
    /\ (exit = "loop" /\ ~Succeeded(doErr, checkErr, shouldRetry)) =>
         /\ handlerCall = Called(resp, EffectiveErr(doErr, checkErr), invocations)
         /\ result = ErrorHandler(doer.ErrorHandler, resp, EffectiveErr(doErr, checkErr),
                                  invocations)
    /\ (exit = "loop" /\ Succeeded(doErr, checkErr, shouldRetry)) =>
         (handlerCall = NoCall /\ result = Returned(resp, Nil))
    /\ exit = "select" =>
         (handlerCall = NoCall /\ result = Returned(NilResp, CtxErr(ctx)))

\* C10 witness: three attempts failed and the handler suppressed the error
C10_Witness ==
  /\ pc = "done"
  /\ exit = "loop"
  /\ doer.ErrorHandler = "suppress"
  /\ handlerCall.called
  /\ handlerCall.numTries = 3
  /\ handlerCall.err = TransportErr(TRUE, "other")
  /\ result = Returned(NilResp, Nil)

\* C11, as stated: without an ErrorHandler, a call that leaves the retry
\* loop without success returns no response and an error that wraps the
\* transport error of the last attempt if there is one, else the error the
\* policy reported for the last attempt if there is one, and is a cause-less
\* "giving up after N attempt(s)" error only when there is neither.
C11_AsStated ==
  (pc = "done" /\ exit = "loop" /\ doer.ErrorHandler = "nil"
     /\ ~(doErr = Nil /\ checkErr = Nil /\ ~shouldRetry)) =>
    /\ result.resp = NilResp
    /\ result.err.kind = "givingUp"
    /\ doErr # Nil => result.err.cause = doErr
    /\ (doErr = Nil /\ checkErr # Nil) => result.err.cause = checkErr
    /\ result.err.cause = Nil <=> (doErr = Nil /\ checkErr = Nil)

\* C11, amended: without an ErrorHandler, a call that leaves the retry loop
\* without success returns no response and a "giving up after N attempt(s)"
\* error that wraps the error the policy reported for the last attempt if
\* it reported one, otherwise the transport error of the last attempt if
\* there is one, and is cause-less only when there is neither; the body of
\* the last response, if any, is closed.
C11_DefaultTerminalError ==
  (pc = "done" /\ exit = "loop" /\ doer.ErrorHandler = "nil"
     /\ ~(doErr = Nil /\ checkErr = Nil /\ ~shouldRetry)) =>
    /\ result.resp = NilResp
    /\ result.err.kind = "givingUp"
    /\ result.err.attempts = invocations
    /\ checkErr # Nil => result.err.cause = checkErr
    /\ (checkErr = Nil /\ doErr # Nil) => result.err.cause = doErr
    /\ result.err.cause = Nil <=> (doErr = Nil /\ checkErr = Nil)
    /\ ~resp.nil => bodies[resp.id] = "closed"
    /\ handlerCall = NoCall

\* C11 witness: the last attempt failed in the transport while the context
\* was cancelled; the error returned wraps the context's error
C11_Witness ==
  /\ pc = "done"
  /\ exit = "loop"
  /\ doer.ErrorHandler = "nil"
  /\ doErr = TransportErr(TRUE, "other")
  /\ checkErr = CtxErr("Canceled")
  /\ result = Returned(NilResp, GivingUp(invocations, CtxErr("Canceled")))

\* a transport error both policies retry under a live context
RetryableErr(e) == e # Nil /\ e \notin NotRetriedErrs

\* C12, as stated: when every attempt of a call that is not cancelled failed
\* with a retryable transport error, the call made all the attempts of its
\* budget and returns an error that carries the number of attempts made and
\* wraps the transport error of the last attempt.
C12_AsStated ==
  (pc = "done" /\ exit = "loop" /\ ctx = "live"
     /\ \A k \in 1..Len(errs) : RetryableErr(errs[k])) =>
    /\ invocations = Max0(doer.RetryMax) + 1
    /\ result.err.kind = "givingUp"
    /\ result.err.attempts = invocations
    /\ result.err.cause = errs[invocations]

\* C12, amended: when every attempt of a call that is not cancelled failed
\* with a retryable transport error, the call made all the attempts of its
\* budget (max(RetryMax, 0) + 1); without an ErrorHandler it returns no
\* response and a "giving up" error that carries the number of attempts made
\* and wraps the transport error of the last attempt, and with an
\* ErrorHandler the handler is called with the transport error of the last
\* attempt and the number of attempts made, and the call returns what the
\* handler returns.
C12_ExhaustedCarriesLastError ==
  (pc = "done" /\ exit = "loop" /\ ctx = "live"
     /\ \A k \in 1..Len(errs) : RetryableErr(errs[k])) =>
    /\ invocations = Max0(doer.RetryMax) + 1
    /\ Len(errs) = invocations
    /\ IF doer.ErrorHandler = "nil"
         THEN /\ result = Returned(NilResp, GivingUp(invocations, errs[invocations]))
              /\ handlerCall = NoCall
         ELSE /\ handlerCall = Called(resp, errs[invocations], invocations)
              /\ result = ErrorHandler(doer.ErrorHandler, resp, errs[invocations], invocations)

\* C12 witness: three attempts failed, the first with another error than
\* the last, and the error returned wraps the last one
C12_Witness ==
  /\ pc = "done"
  /\ doer.RetryMax = 2
  /\ doer.ErrorHandler = "nil"
  /\ errs = <<TransportErr(FALSE, "redirects"), TransportErr(FALSE, "redirects"),
              TransportErr(TRUE, "other")>>
  /\ result = Returned(NilResp, GivingUp(3, TransportErr(TRUE, "other")))

\* C13: for a request through RetryDoer.Do whose body is a one-shot stream,
\* the stream is read once into a buffer, and at every attempt of the call,
\* the first included, req.Body is a reader at the start of the whole
\* buffered content: the bytes it holds for the inner executor are the
\* content of the stream, whatever part of them earlier attempts read.
C13_BodyIdenticalOnEveryAttempt ==
  (~rawBody.nil /\ pc # "new" /\ exit # "fromRequest") =>
    /\ body = ReaderFunc(rawBody.data)
    /\ rawBody.pos = Len(rawBody.data)
    /\ Len(seen) = invocations
    /\ \A k \in 1..Len(seen) : seen[k] = rawBody.data
    /\ invocations > 0 => (~Body.nil /\ Body.data = rawBody.data)

\* C13 witness: the third attempt of a call with a two-byte stream was given
\* both bytes, like the two before it, and read one of them
C13_Witness ==
  /\ pc = "done"
  /\ rawBody.data = <<"a", "b">>
  /\ invocations = 3
  /\ seen = <<rawBody.data, rawBody.data, rawBody.data>>
  /\ Body.pos = 1

\* C14: DefaultRetryPolicy and ErrorPropagatedRetryPolicy return the same
\* retry decision for every context state, response status and transport
\* error: the decision of the policy that was applied is the decision the
\* other policy takes on the same arguments.
C14_SameRetryDecision ==
  (probe.fn = "policy" /\ probe.applied) =>
    LET other == IF probe.policy = "DefaultRetryPolicy"
                   THEN ErrorPropagatedRetryPolicy(probe.ctx, probe.resp, probe.err)
                   ELSE DefaultRetryPolicy(probe.ctx, probe.resp, probe.err)
    IN probe.out.retry = other.retry

\* the executor handed Rest.Do a response and no error
GotResponse == restPc = "returned" /\ doerCalls > 0 /\ restResp.hasResp /\ restResp.err = Nil
\* the target decodeResponse selects for the response
SuccessSelected == isSuccess(rest.isSuccess, restResp.status)

\* C15: on every return of Rest.Do after the executor returned a response
\* without error (status 204, no targets, nil target of the selected branch,
\* decode success, decode error), the response body was read until it ended
\* (EOF or a read error) and was closed after that.
C15_BodyDrainedThenClosed ==
  GotResponse =>
    /\ restResp.body.ended
    /\ restResp.body.closed
    /\ restResp.body.endedAtClose

\* C15 witness: the decoder rejected a malformed body, which was then read to
\* its end and closed
C15_Witness ==
  /\ GotResponse
  /\ restResp.body.doc = "malformed"
  /\ rest.responseDecoder = "jsonDecoder"
  /\ restResult.err = DecodeErr
  /\ restResp.body.endedAtClose

\* C16, as stated: a call returns either a nil error, and then no target
\* holds a partial value and the requested target of a decoded response is
\* fully populated, or a non-nil error, and then both targets hold their
\* prior (zero) value.
C16_AsStated ==
  restPc = "returned" =>
    IF restResult.err = Nil
      THEN /\ successV.val # "partial"
           /\ failureV.val # "partial"
           /\ (GotResponse /\ ~SkipsDecode(restResp.status) /\ SuccessSelected
                 /\ successV.kind # "nil") => successV.val = "full"
           /\ (GotResponse /\ ~SkipsDecode(restResp.status) /\ ~SuccessSelected
                 /\ failureV.kind # "nil") => failureV.val = "full"
      ELSE successV.val = "zero" /\ failureV.val = "zero"

\* C16, amended: when a call returns a nil error, no target holds a partial
\* value and the requested target of a decoded response is fully populated;
\* when it returns the error of Request() or of the executor, both targets
\* hold their prior value; when it returns a decode error, the target that
\* was not selected holds its prior value, and the selected one may have
\* been written (a *Raw holds the bytes read before a read error, a decoded
\* value the fields stored before the error).
C16_NoPartialWithoutError ==
  restPc = "returned" =>
    /\ restResult.err = Nil =>
         /\ successV.val # "partial"
         /\ failureV.val # "partial"
         /\ (GotResponse /\ ~SkipsDecode(restResp.status) /\ SuccessSelected
               /\ successV.kind # "nil") => successV.val = "full"
         /\ (GotResponse /\ ~SkipsDecode(restResp.status) /\ ~SuccessSelected
               /\ failureV.kind # "nil") => failureV.val = "full"
    /\ (restReq.err # Nil \/ restResp.err # Nil) =>
         (successV.val = "zero" /\ failureV.val = "zero")
    /\ (restResult.err # Nil /\ GotResponse) =>
         IF SuccessSelected THEN failureV.val = "zero" ELSE successV.val = "zero"

\* C16 witness: a *Raw success target holds the bytes read before the
\* connection broke, and the read error is returned
C16_Witness ==
  /\ GotResponse
  /\ SuccessSelected
  /\ successV = [kind |-> "Raw", val |-> "partial"]
  /\ failureV.val = "zero"
  /\ restResult.err = ReadErr

\* C17: for every response with status 204, whatever targets were passed
\* and whatever SuccessDecider is configured, both targets keep their prior
\* (zero) value and the error returned is nil.
C17_NoContentSkipsDecode ==
  (GotResponse /\ restResp.status = 204) =>
    /\ successV.val = "zero"
    /\ failureV.val = "zero"
    /\ restResult.err = Nil
    /\ restResult.resp = NewResponse(204)

\* C17 witness: a 204 with a decodable body, a decider that always says
\* success and a success target
C17_Witness ==
  /\ GotResponse
  /\ restResp.status = 204
  /\ restResp.body.doc = "value"
  /\ rest.isSuccess = "always"
  /\ successV = Target("struct")
  /\ failureV = Target("Raw")
  /\ restResult.err = Nil

\* C18: for every response with another status than 204, Do decodes into at
\* most one target: the success target is written only if
\* SuccessDecider(response) is true and then holds the whole value when the
\* body decodes, the failure target only if it is false, likewise; the other
\* target is not modified, and a nil failure target on a non-success
\* response makes Do read the body, discard it and return a nil error.
C18_DecodesSelectedTarget ==
  (GotResponse /\ restResp.status # 204) =>
    /\ successV.val # "zero" => SuccessSelected
    /\ failureV.val # "zero" => ~SuccessSelected
    /\ (SuccessSelected /\ successV.kind # "nil" /\ restResp.body.doc = "value"
          /\ ~restResp.body.fails) => successV.val = "full"
    /\ (~SuccessSelected /\ failureV.kind # "nil" /\ restResp.body.doc = "value"
          /\ ~restResp.body.fails) => failureV.val = "full"
    /\ (~SuccessSelected /\ failureV.kind = "nil") =>
         (restResult.err = Nil /\ restResp.body.ended /\ successV.val = "zero")

\* C18 witness: a 404 decoded into the failure target while the success
\* target, also given, was left alone
C18_Witness ==
  /\ GotResponse
  /\ restResp.status = 404
  /\ rest.isSuccess = "DecodeOnSuccess"
  /\ successV = Target("struct")
  /\ failureV = [kind |-> "struct", val |-> "full"]
  /\ restResult.err = Nil

\* C19: when Request() fails in Receive, Receive returns a nil response
\* and that error, as it is, the executor is not called and no target is
\* written.
C19_RequestErrorReturned ==
  (restPc = "returned" /\ restReq.err # Nil) =>
    /\ restResult = Returned(NilResponse, restReq.err)
    /\ doerCalls = 0
    /\ successV.val = "zero"
    /\ failureV.val = "zero"

\* C19 witness: the body could not be encoded
C19_Witness ==
  /\ restPc = "returned"
  /\ rest.bodyProvider = Provider("json", FALSE)
  /\ restReq.err = BodyEncodeErr
  /\ restResult = Returned(NilResponse, BodyEncodeErr)
  /\ doerCalls = 0

\* C20, as stated: when the last setter call before Receive was a Path or a
\* method setter with a path that does not parse, Request() fails with a
\* URL error.
C20_AsStated ==
  (restPc = "returned" /\ pathErr.last) => restReq.err = URLErr

\* C20, amended: a Path or a method setter given a path that does not parse
\* leaves the raw URL as it was, and the Request() that follows does not fail
\* with a URL error: unless the query or the body fails to encode, it builds
\* a request for the raw URL the builder had before the call.
C20_UnparsedPathIgnored ==
  pathErr.last =>
    /\ rest.rawURL = pathErr.rawURL
    /\ restPc = "returned" =>
         /\ restReq.err # URLErr
         /\ restReq.err = Nil => (~restReq.req.nil /\ restReq.req.url = pathErr.rawURL)

\* C20 witness: Base("https://a.io/") then a path that does not parse, and a
\* request for https://a.io/ was built
C20_Witness ==
  /\ restPc = "returned"
  /\ pathErr.last
  /\ restReq.err = Nil
  /\ restReq.req.url = <<"https://a.io", "/">>

\* C21: after c = b.Clone(), no AddHeader, SetHeader or QueryStruct call on
\* the clone changes the header values or the query structs of the
\* original, and none on the original changes those of the clone.
C21_CloneIsolated ==
  [][clone.made =>
       /\ cloneOps' # cloneOps =>
            /\ Values(rest'.header) = Values(rest.header)
            /\ rest'.queryStructs = rest.queryStructs
       /\ ops' # ops =>
            /\ Values(clone'.c.header) = Values(clone.c.header)
            /\ clone'.c.queryStructs = clone.c.queryStructs]_vars

\* C22: Clone succeeds on every builder, one without a base URL included,
\* and the clone has the executor, method, raw URL, header values and body
\* provider of the original.
C22_CloneSucceeds ==
  /\ restPc # "panicked"
  /\ clone.made /\ cloneOps = 0 =>
       /\ clone.c.httpClient = atClone.httpClient
       /\ clone.c.method = atClone.method
       /\ clone.c.rawURL = atClone.rawURL
       /\ Values(clone.c.header) = Values(atClone.header)
       /\ clone.c.bodyProvider = atClone.bodyProvider

\* the URL a reference resolves to against an absolute URL string, with the
\* trailing slash of the reference kept
Resolved(cur, path) ==
  LET r == String(ResolveReference(Parse(cur).url, Parse(path).url))
  IN IF HasSuffixSlash(path) /\ ~HasSuffixSlash(r) THEN Append(r, "/") ELSE r

\* C23: Path is additive: each Path call and each method setter resolves its
\* reference against the URL the earlier Base and Path calls built, so that
\* Base(b).Path(p1).Path(p2) yields resolve(resolve(b, p1), p2).
C23_PathAdditive ==
  [][\A path \in PathStrings :
       (/\ Parse(path).ok
        /\ rest.rawURL # <<>>
        /\ RestPath(path) \/ \E method \in SetterMethods : RestMethodSetter(method, path))
       => rest'.rawURL = Resolved(rest.rawURL, path)]_vars

C25_HeaderValues ==
  /\ Values(rest.header) = want
  /\ restPc = "built" /\ restReq.err = Nil => restReq.req.header = want

\* a SetHeader and two AddHeader calls for one key in two spellings, then
\* Request()
C25_Witness ==
  /\ restPc = "built"
  /\ restReq.err = Nil
  /\ ops = 3
  /\ restReq.req.header = [k \in {"A"} |-> <<"2", "1", "2">>]

\* C26: after any sequence of body setter calls on a new builder at most
\* one of the single body provider and the multipart provider is set, and
\* the one that is set holds the provider of the last setter call that had a
\* non-nil argument.
C26_OneBodyProvider ==
  /\ rest.bodyProvider = NoProvider \/ rest.multipartBodyProvider = NoProvider
  /\ lastBody.slot = "none" =>
       rest.bodyProvider = NoProvider /\ rest.multipartBodyProvider = NoProvider
  /\ lastBody.slot = "single" =>
       rest.bodyProvider = lastBody.provider /\ rest.multipartBodyProvider = NoProvider
  /\ lastBody.slot = "multipart" =>
       rest.multipartBodyProvider = lastBody.provider /\ rest.bodyProvider = NoProvider

\* BodyJSON, then a multipart setter, then a body setter with a nil argument
C26_Witness ==
  /\ ops = 3
  /\ lastBody.slot = "multipart"
  /\ lastBody.lastNil
  /\ hdrContentTypeKey \in DOMAIN rest.header
  /\ rest.header[hdrContentTypeKey].vals = <<"application/json">>
  /\ rest.multipartBodyProvider # NoProvider

\* C27: a body setter called with a nil argument leaves the whole builder
\* as it was: the provider slots keep their value and the Content-Type
\* header is neither added nor changed.
C27_NilArgumentNoChange ==
  [][\A setter \in BodySetters : RestBodySetter(setter, "nil", "nil") => rest' = rest]_vars

\* a body was set, and a body setter was then called with a nil argument
C27_Witness ==
  /\ lastBody.lastNil
  /\ lastBody.slot = "single"
  /\ rest.bodyProvider = Provider("xml", TRUE)
  /\ rest.header[hdrContentTypeKey].vals = <<"text/xml">>

\* C28: within one DoCustom call an attempt after the first is under way
\* only when every earlier attempt has returned, CheckRetry said to retry
\* after each of them, the response body each of them came with is closed,
\* and between any two attempts Backoff was called once and one wait ended;
\* the Backoff call after the (k+1)-th attempt was given the attempt number k.
C28_AttemptsInOrder ==
  pc = "inflight" =>
    /\ attempt = invocations
    /\ Len(errs) = invocations - 1
    /\ Len(verdicts) = invocations - 1
    /\ Len(bodies) = invocations - 1
    /\ Len(backoffCalls) = invocations - 1
    /\ waited = invocations - 1
    /\ \A k \in 1..(invocations - 1) :
         /\ verdicts[k]
         /\ bodies[k] # "open"
         /\ backoffCalls[k] = k - 1

\* the third attempt is under way; the first two came with a response body
C28_Witness ==
  /\ pc = "inflight"
  /\ invocations = 3
  /\ bodies = <<"closed", "closed">>
  /\ errs = <<Nil, Nil>>
  /\ backoffCalls = <<0, 1>>

\* the response of the k-th invocation was returned to the caller or given
\* to the ErrorHandler
HandedOver(k) ==
  \/ ~result.resp.nil /\ result.resp.id = k
  \/ handlerCall.called /\ ~handlerCall.resp.nil /\ handlerCall.resp.id = k

\* C29: when DoCustom has returned, on whatever path, the body of every
\* response the inner executor returned without a transport error is closed,
\* or the response was returned to the caller or given to the ErrorHandler.
C29_NoBodyLeftOpen ==
  pc \in {"done", "panicked"} =>
    \A k \in 1..Len(bodies) : errs[k] = Nil => bodies[k] = "closed" \/ HandedOver(k)

\* the retries ran out on a response, without an ErrorHandler: the bodies
\* of both responses are closed and no response is returned
C29_Witness ==
  /\ pc = "done"
  /\ exit = "loop"
  /\ doer.ErrorHandler = "nil"
  /\ errs = <<Nil, Nil>>
  /\ shouldRetry
  /\ bodies = <<"closed", "closed">>
  /\ result.resp.nil

\* what the call with local variables k returns, from its own last attempt
\* and its own context
OwnResult(k) ==
  LET n == Len(k.outs)
      o == k.outs[n]
      r == RespOf(o, n)
      v == CheckRetry(doer.CheckRetry, k.ctxAtCheck, r, o.err)
  IN IF k.exit = "select" THEN Returned(NilResp, CtxErr(k.ctx))
     ELSE Terminal(doer, r, o.err, v.err, v.retry, n, k.bodies).result

\* the attempt counter, last response and last errors of the call are those
\* of its own attempts
OwnLocals(k) ==
  LET n == Len(k.outs)
  IN /\ k.attempt = n + (IF k.pending THEN 1 ELSE 0)
     /\ n = 0 => k.resp = NilResp /\ k.doErr = Nil /\ k.checkErr = Nil
     /\ n > 0 =>
          LET o == k.outs[n]
              v == CheckRetry(doer.CheckRetry, k.ctxAtCheck, RespOf(o, n), o.err)
          IN /\ k.resp = RespOf(o, n)
             /\ k.doErr = o.err
             /\ k.checkErr = v.err
             /\ k.shouldRetry = v.retry
     /\ k.result.set => n > 0 /\ k.result = OwnResult(k)

\* C30 as stated: under every interleaving of two calls through the same
\* RetryDoer, each call has its own attempt counter, last response and last
\* errors, makes at most RetryMax + 1 attempts, and returns what its own
\* attempts determine.
C30_AsStated ==
  \A p \in Callers : OwnLocals(calls[p]) /\ calls[p].attempt <= doer.RetryMax + 1

\* C30: under every interleaving of two calls through the same RetryDoer,
\* each call has its own attempt counter, last response and last errors,
\* makes at most max(RetryMax, 0) + 1 attempts, and returns what its own last
\* attempt and its own context determine.
C30_CallsDoNotInterfere ==
  \A p \in Callers : OwnLocals(calls[p]) /\ calls[p].attempt <= Max0(doer.RetryMax) + 1

\* one call has returned the response of its first attempt while the other,
\* started with it, is in its second attempt after a 503
C30_Witness ==
  /\ calls[1].pc = "inflight"
  /\ calls[1].attempt = 2
  /\ calls[1].resp.status = 503
  /\ calls[2].pc = "done"
  /\ calls[2].attempt = 1
  /\ calls[2].result = Returned(RespOf(Outcome(TRUE, 200, FALSE, <<>>, Nil), 1), Nil)

\* the transport error of the last attempt, and the verdict of the policy on it
LastErr == errs[Len(errs)]
LastVerdict == CheckRetry(doer.CheckRetry, ctxAtCheck, resp, LastErr)

\* C31: when DoCustom returns after the loop, the response it holds is that of
\* the last attempt; a last attempt without transport error, policy error and
\* retry request makes the call return that response without an error,
\* whatever the earlier attempts returned; and the error handed to the
\* ErrorHandler or wrapped in the final error is that of the last attempt.
C31_LastAttemptDecides ==
  pc = "done" /\ exit = "loop" =>
    /\ resp.nil \/ resp.id = Len(errs)
    /\ doErr = LastErr
    /\ LastErr = Nil /\ LastVerdict.err = Nil /\ ~LastVerdict.retry => result = Returned(resp, Nil)
    /\ result.err.kind = "givingUp" => result.err.cause = EffectiveErr(LastErr, LastVerdict.err)
    /\ handlerCall.called => handlerCall.err = EffectiveErr(LastErr, LastVerdict.err)

\* the first attempt ended with a transport error and was retried; the second
\* got a 200 and the call returned it without an error
C31_Witness ==
  /\ pc = "done"
  /\ exit = "loop"
  /\ Len(errs) = 2
  /\ errs[1] # Nil
  /\ errs[2] = Nil
  /\ resp.status = 200
  /\ result = Returned(resp, Nil)

\* C32: of two Request() calls on a builder that no setter was called on in
\* between, or on a builder and its clone, the second succeeds when the first
\* did, and the two requests, once sent, have carried the same bytes.
C32_BuildingIsRepeatable ==
  \A j, k \in DOMAIN built :
    j < k /\ built[j].err = Nil =>
      /\ built[k].err = Nil
      /\ built[j].sent /\ built[k].sent => built[j].bytes = built[k].bytes

\* C33: a Request() call leaves the builder it is called on, and the other
\* one, as they were.
C33_RequestLeavesBuilder ==
  [][Len(built') > Len(built) => rest' = rest /\ clone' = clone]_vars

\* C34: a request the builder builds after body setter calls only has the
\* content type of the provider its body comes from as its Content-Type
\* header, and no Content-Type header when that provider has no content type.
C34_ContentTypeOfActiveProvider ==
  \A k \in DOMAIN built :
    built[k].who = "b" /\ built[k].err = Nil =>
      LET ct == ContentType(Provider(built[k].req.body, TRUE))
          h == built[k].req.header
      IN IF ct = "" THEN hdrContentTypeKey \notin DOMAIN h
         ELSE hdrContentTypeKey \in DOMAIN h /\ h[hdrContentTypeKey] = <<ct>>

\* C35: Request() on a new clone gives what Request() on its original gives:
\* the same error, the same kind of body and the same body.
C35_CloneCarriesBody ==
  clone.made /\ built = <<>> =>
    \A boundary \in Boundaries :
      LET a == Build(rest, heap, boundary)
          c == Build(clone.c, heap, boundary)
      IN a.err = c.err /\ a.req.body = c.req.body /\ a.body = c.body

\* ------------------------------------------------------------------ claims: parser
\* C36: each JSON-RPC call of an Invoker sends the request body it built and
\* decodes the response to it, whatever calls other goroutines make through
\* the same Invoker at the same time.
C36_OwnBodyOwnResponse ==
  \A p \in RpcCallers :
    (rpcs[p].pc = "idle" /\ rpcs[p].n > 0) =>
      /\ rpcs[p].err = Nil
      /\ rpcs[p].sent = rpcs[p].request
      /\ rpcs[p].out = RpcResponse(rpcs[p].request)

\* the goroutine is between polls, and no RPC of a poll so far failed
BetweenPolls == gor.pc \in {"select", "returned", "exited"}
Recorded == {repo.blockTransactions[n] : n \in DOMAIN repo.blockTransactions}
RecordedIndexes == {x \in 0..MaxCount : Hash(SprintfHex(x)) \in Recorded}
HighestRecorded == CHOOSE x \in RecordedIndexes : \A y \in RecordedIndexes : y <= x

\* C37: after polls in which every RPC succeeded, whatever counts they
\* reported, the repository holds as many transaction records as
\* BlockInfo.Count, no index twice, and LatestTransactionAddress is the hash
\* of the highest recorded index.
C37_RepositoryAgreesWithCount ==
  (BetweenPolls /\ ~gor.anyFailed /\ gor.polls > 0) =>
    LET info == GetBlockInfo(repo, Address)
        txs == repo.blockTransactions
    IN /\ ~info.nil
       /\ Len(txs) = info.Count
       /\ \A j, k \in DOMAIN txs : j # k => txs[j] # txs[k]
       /\ txs # <<>> => info.LatestTransactionAddress = Hash(SprintfHex(HighestRecorded))

\* a poll is in progress while one of its RPCs is in flight
InPoll(g) == g.pc \in {"count", "tx"}

\* C38: when an RPC of a poll fails (the count request or a per-index
\* request), the poll ends by returning an error to the loop of Subscribe,
\* and the repository is as it was: no record appended, BlockInfo not
\* updated.
C38_FailedPollReturnsError ==
  [][(InPoll(gor) /\ gor'.failed /\ ~InPoll(gor')) =>
       (gor'.pc = "returned" /\ gor'.err = "error" /\ repo' = repo)]_vars

\* C39: the polls of the goroutine of one Subscribe call never overlap, and
\* once the context of the Invoker is cancelled the goroutine stops polling
\* and exits, as long as the poll in progress returns (a poll that panics
\* does not).
C39_PollsInTurnThenExit ==
  /\ [](gor.active <= 1)
  /\ (invoker.ctx # "live") ~> (gor.pc \in {"exited", "panicked"})
C39_Witness ==
  /\ invoker.ctx # "live"
  /\ gor.pc = "exited"
  /\ gor.polls >= 2
  /\ ~gor.anyFailed

====
